---------------------------- MODULE Spec2Model ----------------------------
(***************************************************************************)
(* A model of wax/lib/pygpt.py: the GPT aggregate (load, checksum,         *)
(* integrity validation, resize, expand, dual persistence) and the command *)
(* layer built on it, over a backing image.                                *)
(*                                                                         *)
(* The image is a sparse array of 128-byte cells (one partition entry per  *)
(* cell, four cells per 512-byte sector); a cell that is absent from the   *)
(* map holds zero bytes.  A header (92 bytes) occupies the first cell of   *)
(* its block.  Python exceptions are modelled as result strings.           *)
(***************************************************************************)
EXTENDS Integers, Sequences, FiniteSets, TLC

(***************************************************************************)
(* Bounds of the model.                                                    *)
(***************************************************************************)
\* number of operations in one behaviour
MaxSteps == 3
\* number of leading table entries the commands of the model address
MaxParts == 2

(***************************************************************************)
(* Program constants.                                                      *)
(***************************************************************************)
DEFAULT_BLOCK_SIZE == 512
BLOCK_SIZE_4K == 4096
DEFAULT_PARTITION_ENTRIES == 128
DEFAULT_PARTITIONS_LBA == 2
PARTITION_ENTRY_SIZE == 128
HEADER_SIZE == 92

SIGNATURES == <<"EFI PART", "CHROMEOS">>
SIGNATURE_IGNORE == "IGNOREME"
DEFAULT_REVISION == "00000100"
ZERO_SIGNATURE == "00000000"

TYPE_GUID_UNUSED == "00000000-0000-0000-0000-000000000000"
TYPE_GUID_CHROMEOS_KERNEL == "FE3A2A5D-4F32-41A7-B725-ACCC3285A309"
TYPE_GUID_LINUX_DATA == "0FC63DAF-8483-4772-8E79-3D69D8477DE4"
ZERO_GUID == "00000000-0000-0000-0000-000000000000"
GARBAGE_GUID == "????????-????-????-????-????????????"
\* the value of a zeroed CRC32 field
ZERO_CRC == <<>>

(***************************************************************************)
(* Small arithmetic helpers.                                               *)
(***************************************************************************)
Max2(a, b) == IF a >= b THEN a ELSE b
Min2(a, b) == IF a <= b THEN a ELSE b

RECURSIVE Pow2(_)
Pow2(n) == IF n = 0 THEN 1 ELSE 2 * Pow2(n - 1)

SeqRange(s) == {s[i] : i \in 1..Len(s)}

(***************************************************************************)
(* Field codecs.                                                           *)
(***************************************************************************)
\* BitProperty: the 64-bit attribute word is the set of its set bit positions.
\* MaskBits(mask) is the set of bit positions of the (contiguous, low) mask.
MaskBits(mask) == {i \in 0..15 : (mask \div Pow2(i)) % 2 = 1}

BitGet(raw, shift, mask) ==
    LET bits == {i \in MaskBits(mask) : (shift + i) \in raw}
        RECURSIVE Sum(_)
        Sum(S) == IF S = {} THEN 0
                  ELSE LET x == CHOOSE y \in S : TRUE IN Pow2(x) + Sum(S \ {x})
    IN Sum(bits)

\* value & mask == value: every set bit of value is a bit of the mask
BitFits(value, mask) ==
    /\ value >= 0
    /\ \A i \in 0..30 : ((value \div Pow2(i)) % 2 = 1) => i \in MaskBits(mask)

BitSet(raw, shift, mask, value) ==
    (raw \ {shift + i : i \in MaskBits(mask)})
        \cup {shift + i : i \in {j \in MaskBits(mask) : (value \div Pow2(j)) % 2 = 1}}

Successful(raw) == BitGet(raw, 56, 1)
Tries(raw) == BitGet(raw, 52, 15)
Priority(raw) == BitGet(raw, 48, 15)
LegacyBoot(raw) == BitGet(raw, 2, 1)
Required(raw) == BitGet(raw, 0, 1)

\* UTF16StructField: a name is a sequence of UTF-16 code units.  struct pads
\* the encoded bytes with NULs to the field width, so the packed form is the
\* name up to trailing NUL units; Unpack strips NULs at both ends.
RECURSIVE StripTrailingNul(_)
StripTrailingNul(s) ==
    IF s # <<>> /\ s[Len(s)] = 0 THEN StripTrailingNul(SubSeq(s, 1, Len(s) - 1))
    ELSE s

RECURSIVE StripLeadingNul(_)
StripLeadingNul(s) ==
    IF s # <<>> /\ s[1] = 0 THEN StripLeadingNul(Tail(s)) ELSE s

UTF16PackOk(name) == 2 * Len(name) < 72
UTF16Pack(name) == StripTrailingNul(name)
UTF16Unpack(bytes) == StripLeadingNul(StripTrailingNul(bytes))

(***************************************************************************)
(* Records: Header and Partition.                                          *)
(***************************************************************************)
\* GPTObject.Zero for a partition entry
ZeroPartition ==
    [TypeGUID |-> ZERO_GUID, UniqueGUID |-> ZERO_GUID, FirstLBA |-> 0,
     LastLBA |-> 0, Attributes |-> {}, Names |-> <<>>]

\* an entry decoded from bytes that are not a partition entry
GarbagePartition ==
    [TypeGUID |-> GARBAGE_GUID, UniqueGUID |-> GARBAGE_GUID, FirstLBA |-> 0,
     LastLBA |-> 0, Attributes |-> {}, Names |-> <<>>]

ZeroHeader ==
    [Signature |-> ZERO_SIGNATURE, Revision |-> "00000000", HeaderSize |-> 0,
     CRC32 |-> ZERO_CRC, Reserved |-> "00000000", CurrentLBA |-> 0, BackupLBA |-> 0,
     FirstUsableLBA |-> 0, LastUsableLBA |-> 0, DiskGUID |-> ZERO_GUID,
     PartitionEntriesStartingLBA |-> 0, PartitionEntriesNumber |-> 0,
     PartitionEntrySize |-> 0, PartitionArrayCRC32 |-> ZERO_CRC]

\* a header decoded from bytes that are not a header
GarbageHeader == [ZeroHeader EXCEPT !.Signature = "????????"]

IsUnused(p) == p.TypeGUID = TYPE_GUID_UNUSED
IsChromeOSKernel(p) == p.TypeGUID = TYPE_GUID_CHROMEOS_KERNEL
Blocks(p) == p.LastLBA - p.FirstLBA + 1

\* GPTObject.Pack of one entry: the field codecs run first (the name may not
\* fit), then struct.pack, which accepts an unsigned field only when the value
\* is not negative
PartitionPackResult(p) ==
    IF ~UTF16PackOk(p.Names) THEN "StructError"
    ELSE IF p.FirstLBA < 0 \/ p.LastLBA < 0 THEN "struct.error"
    ELSE "ok"

PartitionPack(p) == [p EXCEPT !.Names = UTF16Pack(p.Names)]
PartitionUnpack(b) == [b EXCEPT !.Names = UTF16Unpack(b.Names)]

HeaderPackOk(h) ==
    /\ h.CurrentLBA >= 0 /\ h.BackupLBA >= 0
    /\ h.FirstUsableLBA >= 0 /\ h.LastUsableLBA >= 0
    /\ h.PartitionEntriesStartingLBA >= 0
    /\ h.PartitionEntriesNumber >= 0 /\ h.PartitionEntrySize >= 0
    /\ h.HeaderSize >= 0

\* binascii.crc32, treated as collision-free: the digest of a blob is the blob
\* (for a partition array: its length and its non-zero packed entries)
Crc32(blob) == <<blob>>

PartitionsBlob(parts) ==
    [n |-> Len(parts),
     nz |-> {<<i, PartitionPack(parts[i])>> : i \in
                {j \in 1..Len(parts) : PartitionPack(parts[j]) # ZeroPartition}}]

\* b''.join(p.blob for p in partitions): the first entry that does not pack
\* decides the exception
PartitionsPackResult(parts) ==
    LET First(bad) ==
            IF bad = {} THEN "ok"
            ELSE PartitionPackResult(parts[CHOOSE i \in bad : \A j \in bad : i <= j])
    IN First({i \in 1..Len(parts) : PartitionPackResult(parts[i]) # "ok"})

\* Header.Create
CeilDiv(a, b) == (a \div b) + (IF a % b # 0 THEN 1 ELSE 0)

\* Header.Create with BackupLBA one block past the last block
HeaderCreateBackupPastEnd(size, block_size, pad_blocks, part_entries, disk_guid) ==
    LET part_entry_size == PARTITION_ENTRY_SIZE
        parts_lba == DEFAULT_PARTITIONS_LBA + pad_blocks
        parts_bytes == part_entries * part_entry_size
        parts_blocks == CeilDiv(parts_bytes, block_size)
    IN [ZeroHeader EXCEPT
          !.Signature = SIGNATURES[1],
          !.Revision = DEFAULT_REVISION,
          !.HeaderSize = HEADER_SIZE,
          !.CurrentLBA = 1,
          !.BackupLBA = size \div block_size,
          !.FirstUsableLBA = parts_lba + parts_blocks,
          !.LastUsableLBA = (size \div block_size) - parts_blocks - parts_lba,
          !.DiskGUID = disk_guid,
          !.PartitionEntriesStartingLBA = parts_lba,
          !.PartitionEntriesNumber = part_entries,
          !.PartitionEntrySize = part_entry_size]

HeaderCreate(size, block_size, pad_blocks, part_entries, disk_guid) ==
    LET part_entry_size == PARTITION_ENTRY_SIZE
        parts_lba == DEFAULT_PARTITIONS_LBA + pad_blocks
        parts_bytes == part_entries * part_entry_size
        parts_blocks == CeilDiv(parts_bytes, block_size)
    IN [ZeroHeader EXCEPT
          !.Signature = SIGNATURES[1],
          !.Revision = DEFAULT_REVISION,
          !.HeaderSize = HEADER_SIZE,
          !.CurrentLBA = 1,
          !.BackupLBA = (size \div block_size) - 1,
          !.FirstUsableLBA = parts_lba + parts_blocks,
          !.LastUsableLBA = (size \div block_size) - parts_blocks - parts_lba,
          !.DiskGUID = disk_guid,
          !.PartitionEntriesStartingLBA = parts_lba,
          !.PartitionEntriesNumber = part_entries,
          !.PartitionEntrySize = part_entry_size]

\* Header.UpdateChecksum
HeaderUpdateChecksum(h) ==
    [h EXCEPT !.CRC32 = Crc32([h EXCEPT !.CRC32 = ZERO_CRC])]


(***************************************************************************)
(* The backing image.                                                      *)
(***************************************************************************)
ZeroCell == [k |-> "zero", h |-> ZeroHeader, e |-> ZeroPartition]
\* non-zero bytes that are neither a header nor a partition entry
JunkCell == [k |-> "junk", h |-> ZeroHeader, e |-> ZeroPartition]
HeaderCell(h) == [k |-> "hdr", h |-> h, e |-> ZeroPartition]
EntryCell(e) ==
    IF e = ZeroPartition THEN ZeroCell ELSE [k |-> "ent", h |-> ZeroHeader, e |-> e]

BlankImage(size) == [size |-> size, cells |-> <<>>]

CellAt(img, c) == IF c \in DOMAIN img.cells THEN img.cells[c] ELSE ZeroCell

\* image.seek(offset); image.write(blob): blob covers the cells of `content`
\* (a function from cell numbers to cells) and ends at byte `end`; writing
\* past the end of a regular file extends it
WriteCells(img, content, end) ==
    LET W == DOMAIN content
        keep == (DOMAIN img.cells \ W) \cup {c \in W : content[c] # ZeroCell}
    IN [size |-> Max2(img.size, end),
        cells |-> [c \in keep |-> IF c \in W THEN content[c] ELSE img.cells[c]]]

\* Header.ReadFrom(image) at a byte offset.  At an offset that is not the
\* start of a cell the bytes read are the tail of one cell and the head of the
\* next: zero when both are zero, and otherwise no header.
ReadHeader(img, offset) ==
    LET c == offset \div PARTITION_ENTRY_SIZE
        cell == CellAt(img, c)
    IN IF offset % PARTITION_ENTRY_SIZE # 0
       THEN IF cell = ZeroCell /\ CellAt(img, c + 1) = ZeroCell
            THEN ZeroHeader ELSE GarbageHeader
       ELSE IF cell.k = "hdr" THEN cell.h
       ELSE IF cell.k = "zero" THEN ZeroHeader
       ELSE GarbageHeader

\* Partition.ReadFrom(image) at a cell
ReadPartitionAt(img, c) ==
    LET cell == CellAt(img, c)
    IN IF cell.k = "ent" THEN PartitionUnpack(cell.e)
       ELSE IF cell.k = "zero" THEN PartitionUnpack(ZeroPartition)
       ELSE GarbagePartition

(***************************************************************************)
(* The GPT aggregate.                                                      *)
(***************************************************************************)
NoGPT ==
    [header |-> ZeroHeader, partitions |-> <<>>,
     block_size |-> DEFAULT_BLOCK_SIZE, is_secondary |-> FALSE]

\* one examined header location of LoadFromFile, or one step of WriteToFile
Event(ev, a, b) == [ev |-> ev, a |-> a, b |-> b]

\* the numbers of the partitions with type GUID not unused, in table order
GetUsedPartitions(gpt) ==
    LET all == [i \in 1..Len(gpt.partitions) |-> i]
        Used(i) == ~IsUnused(gpt.partitions[i])
    IN SelectSeq(all, Used)

GetMaxUsedLBA(gpt) ==
    LET MaxOf(used) ==
            IF used # {}
            THEN CHOOSE m \in {gpt.partitions[i].LastLBA : i \in used} :
                    \A i \in used : gpt.partitions[i].LastLBA <= m
            ELSE gpt.header.FirstUsableLBA - 1
    IN MaxOf(SeqRange(GetUsedPartitions(gpt)))

GetPartitionTableBlocks(gpt, header) ==
    CeilDiv(header.PartitionEntrySize * header.PartitionEntriesNumber,
            gpt.block_size)

GetSize(gpt) == gpt.block_size * (gpt.header.BackupLBA + 1)

\* list.sort(key=FirstLBA): stable, ascending
RECURSIVE InsertByFirstLBA(_, _, _)
InsertByFirstLBA(parts, sorted, x) ==
    IF sorted = <<>> THEN <<x>>
    ELSE IF parts[sorted[Len(sorted)]].FirstLBA <= parts[x].FirstLBA
         THEN Append(sorted, x)
         ELSE Append(InsertByFirstLBA(parts, SubSeq(sorted, 1, Len(sorted) - 1), x),
                     sorted[Len(sorted)])

RECURSIVE SortByFirstLBA(_, _)
SortByFirstLBA(parts, idxs) ==
    IF idxs = <<>> THEN <<>>
    ELSE InsertByFirstLBA(parts,
                          SortByFirstLBA(parts, SubSeq(idxs, 1, Len(idxs) - 1)),
                          idxs[Len(idxs)])

\* CheckIntegrity.CheckOutsideUsable
CheckOutsideUsable(gpt, lba, outside_entries) ==
    LET header == gpt.header
        entries_first_lba == header.PartitionEntriesStartingLBA
        entries_last_lba ==
            entries_first_lba + GetPartitionTableBlocks(gpt, header) - 1
    IN IF lba < 1 THEN "GPTError"
       ELSE IF lba > Max2(header.BackupLBA, header.CurrentLBA) THEN "GPTError"
       ELSE IF header.FirstUsableLBA <= lba /\ lba <= header.LastUsableLBA
            THEN "GPTError"
       ELSE IF outside_entries /\ entries_first_lba <= lba /\ lba <= entries_last_lba
            THEN "GPTError"
       ELSE "ok"

\* the sweep with > for >=: two partitions that share one block pass
OverlapInSortedStrict(parts, lba_list) ==
    \E i \in 1..(Len(lba_list) - 1) :
        parts[lba_list[i]].LastLBA > parts[lba_list[i + 1]].FirstLBA

\* the sweep over adjacent pairs of the FirstLBA-sorted list
OverlapInSorted(parts, lba_list) ==
    \E i \in 1..(Len(lba_list) - 1) :
        parts[lba_list[i]].LastLBA >= parts[lba_list[i + 1]].FirstLBA

\* the two CRC comparisons at the end of CheckIntegrity
CheckCRCs(gpt) ==
    LET Packed(pack) ==
            IF pack # "ok" THEN pack
            ELSE IF Crc32(PartitionsBlob(gpt.partitions))
                        # gpt.header.PartitionArrayCRC32
                THEN "GPTError"
            ELSE IF ~HeaderPackOk(gpt.header) THEN "struct.error"
            ELSE IF HeaderUpdateChecksum(gpt.header).CRC32 # gpt.header.CRC32
                THEN "GPTError"
            ELSE "ok"
    IN Packed(PartitionsPackResult(gpt.partitions))

\* the checks of the first and the last partition of the sorted list: the
\* messages of both raises read header.FirstLBA / header.LastLBA, which a
\* Header does not have
CheckFirstLast(gpt, lba_list) ==
    IF lba_list = <<>> THEN "ok"
    ELSE IF gpt.partitions[lba_list[1]].FirstLBA < gpt.header.FirstUsableLBA
        THEN "AttributeError"
    ELSE IF gpt.partitions[lba_list[Len(lba_list)]].LastLBA > gpt.header.LastUsableLBA
        THEN "AttributeError"
    ELSE "ok"

CheckLayout(gpt) ==
    LET header == gpt.header
        entries_first_lba == header.PartitionEntriesStartingLBA
        entries_last_lba ==
            entries_first_lba + GetPartitionTableBlocks(gpt, header) - 1
    IN IF CheckOutsideUsable(gpt, header.CurrentLBA, TRUE) # "ok" THEN "GPTError"
       ELSE IF CheckOutsideUsable(gpt, header.BackupLBA, TRUE) # "ok" THEN "GPTError"
       ELSE IF CheckOutsideUsable(gpt, entries_first_lba, FALSE) # "ok" THEN "GPTError"
       ELSE IF CheckOutsideUsable(gpt, entries_last_lba, FALSE) # "ok" THEN "GPTError"
       ELSE "ok"

CheckUniqueGUIDs(gpt) ==
    LET Unique(parts) ==
            IF Cardinality({gpt.partitions[i].UniqueGUID : i \in parts})
                    # Cardinality(parts)
            THEN "GPTError" ELSE "ok"
    IN Unique(SeqRange(GetUsedPartitions(gpt)))

CheckIntegrity(gpt) ==
    LET Sorted(lba_list) ==
            IF CheckLayout(gpt) # "ok" THEN "GPTError"
            ELSE IF OverlapInSorted(gpt.partitions, lba_list) THEN "GPTError"
            ELSE IF CheckFirstLast(gpt, lba_list) # "ok" THEN "AttributeError"
            ELSE IF CheckUniqueGUIDs(gpt) # "ok" THEN "GPTError"
            ELSE CheckCRCs(gpt)
    IN Sorted(SortByFirstLBA(gpt.partitions, GetUsedPartitions(gpt)))

\* GPT.UpdateChecksum: the result of packing, and the object after it
UpdateChecksumResult(gpt) ==
    LET Packed(pack) ==
            IF pack # "ok" THEN pack
            ELSE IF ~HeaderPackOk(gpt.header) THEN "struct.error"
            ELSE "ok"
    IN Packed(PartitionsPackResult(gpt.partitions))

UpdateChecksum(gpt) ==
    [gpt EXCEPT !.header =
        HeaderUpdateChecksum(
            [gpt.header EXCEPT
                !.PartitionArrayCRC32 = Crc32(PartitionsBlob(gpt.partitions))])]

GetBackupHeader(gpt, header) ==
    LET partitions_starting_lba ==
            header.BackupLBA - GetPartitionTableBlocks(gpt, gpt.header)
    IN HeaderUpdateChecksum(
        [header EXCEPT !.BackupLBA = header.CurrentLBA,
                       !.CurrentLBA = header.BackupLBA,
                       !.PartitionEntriesStartingLBA = partitions_starting_lba])

IsLastPartition(gpt, part) ==
    /\ ~IsUnused(gpt.partitions[part])
    /\ GetMaxUsedLBA(gpt) = gpt.partitions[part].LastLBA

(***************************************************************************)
(* LoadFromFile.                                                           *)
(***************************************************************************)
\* the order with the backup location of each block size before the primary
ProbeOrderBackupFirst ==
    << [block_size |-> DEFAULT_BLOCK_SIZE, i |-> 1],
       [block_size |-> DEFAULT_BLOCK_SIZE, i |-> 0],
       [block_size |-> BLOCK_SIZE_4K, i |-> 1],
       [block_size |-> BLOCK_SIZE_4K, i |-> 0] >>

\* the order with both primary locations before the backup locations
ProbeOrderPrimariesFirst ==
    << [block_size |-> DEFAULT_BLOCK_SIZE, i |-> 0],
       [block_size |-> BLOCK_SIZE_4K, i |-> 0],
       [block_size |-> DEFAULT_BLOCK_SIZE, i |-> 1],
       [block_size |-> BLOCK_SIZE_4K, i |-> 1] >>

\* the header locations in the order LoadFromFile examines them, for a
\* regular file: block_sizes = [DEFAULT_BLOCK_SIZE, 4096], and for each the
\* seeks enumerate([(block_size * 1, SEEK_SET), (-block_size, SEEK_END)])
ProbeOrder ==
    << [block_size |-> DEFAULT_BLOCK_SIZE, i |-> 0],
       [block_size |-> DEFAULT_BLOCK_SIZE, i |-> 1],
       [block_size |-> BLOCK_SIZE_4K, i |-> 0],
       [block_size |-> BLOCK_SIZE_4K, i |-> 1] >>

ProbeOffset(img, probe) ==
    IF probe.i = 0 THEN probe.block_size * 1 ELSE img.size - probe.block_size

ProbeEvent(probe) == Event("ReadHeader", probe.block_size, probe.i)

\* examine the locations from the k-th on; `seen` are the events so far
RECURSIVE ProbeFrom(_, _, _)
ProbeFrom(img, k, seen) ==
    IF k > Len(ProbeOrder)
    THEN [res |-> "GPTError", k |-> 0, trace |-> seen]
    ELSE LET probe == ProbeOrder[k]
             offset == ProbeOffset(img, probe)
             now == Append(seen, ProbeEvent(probe))
         IN IF offset < 0 THEN [res |-> "OSError", k |-> 0, trace |-> now]
            ELSE IF offset + HEADER_SIZE > img.size
                 THEN [res |-> "struct.error", k |-> 0, trace |-> now]
            ELSE IF ReadHeader(img, offset).Signature \in SeqRange(SIGNATURES)
                 THEN [res |-> "ok", k |-> k, trace |-> now]
            ELSE ProbeFrom(img, k + 1, now)

LoadFromFile(img) ==
    LET ReadTable(found, probe, header, first, n) ==
            IF (first + n) * PARTITION_ENTRY_SIZE > img.size
            THEN [res |-> "struct.error", gpt |-> NoGPT, image |-> img,
                  trace |-> found.trace]
            ELSE [res |-> "ok",
                  gpt |-> [header |-> header,
                           partitions |->
                              [j \in 1..n |-> ReadPartitionAt(img, first + j - 1)],
                           block_size |-> probe.block_size,
                           is_secondary |-> (probe.i # 0)],
                  image |-> img, trace |-> found.trace]
        Found(found, probe, header) ==
            ReadTable(found, probe, header,
                      (probe.block_size * header.PartitionEntriesStartingLBA)
                            \div PARTITION_ENTRY_SIZE,
                      header.PartitionEntriesNumber)
        Probed(found) ==
            IF found.res # "ok"
            THEN [res |-> found.res, gpt |-> NoGPT, image |-> img,
                  trace |-> found.trace]
            ELSE Found(found, ProbeOrder[found.k],
                       ReadHeader(img, ProbeOffset(img, ProbeOrder[found.k])))
    IN Probed(ProbeFrom(img, 1, <<>>))

(***************************************************************************)
(* WriteToFile.                                                            *)
(***************************************************************************)
\* WriteData(name, blob, lba) for a header blob
WriteHeader(img, gpt, header, lba) ==
    LET c == (lba * gpt.block_size) \div PARTITION_ENTRY_SIZE
    IN WriteCells(img, [x \in {c} |-> HeaderCell(header)],
                  lba * gpt.block_size + HEADER_SIZE)

\* WriteData(name, parts_blob, lba)
WritePartitions(img, gpt, lba) ==
    LET c == (lba * gpt.block_size) \div PARTITION_ENTRY_SIZE
        n == Len(gpt.partitions)
    IN WriteCells(img,
                  [x \in c..(c + n - 1) |->
                        EntryCell(PartitionPack(gpt.partitions[x - c + 1]))],
                  (c + n) * PARTITION_ENTRY_SIZE)

\* the two writes of the primary location (or of the only location of a
\* backup copy)
WriteOwnCopy(img, gpt) ==
    WritePartitions(WriteHeader(img, gpt, gpt.header, gpt.header.CurrentLBA),
                    gpt, gpt.header.PartitionEntriesStartingLBA)

\* the two writes of the mirrored backup
WriteBackupCopy(img, gpt, backup_header) ==
    WriteHeader(WritePartitions(img, gpt, backup_header.PartitionEntriesStartingLBA),
                gpt, backup_header, backup_header.CurrentLBA)

\* WriteToFile with the primary copy written before CheckIntegrity runs
WriteToFileBeforeCheck(gpt, img) ==
    LET t2 == <<Event("UpdateChecksum", 0, 0), Event("CheckIntegrity", 0, 0)>>
        Checked(sums, integrity, own) ==
            IF integrity # "ok"
            THEN [res |-> integrity, gpt |-> sums, image |-> own, trace |-> t2]
            ELSE IF sums.is_secondary
            THEN [res |-> "ok", gpt |-> sums, image |-> own, trace |-> t2]
            ELSE [res |-> "ok", gpt |-> sums,
                  image |-> WriteBackupCopy(own, sums,
                                            GetBackupHeader(sums, sums.header)),
                  trace |-> t2]
        Summed(sums) == Checked(sums, CheckIntegrity(sums), WriteOwnCopy(img, sums))
    IN IF UpdateChecksumResult(gpt) # "ok"
       THEN [res |-> UpdateChecksumResult(gpt), gpt |-> gpt, image |-> img,
             trace |-> <<Event("UpdateChecksum", 0, 0)>>]
       ELSE Summed(UpdateChecksum(gpt))

WriteToFile(gpt, img) ==
    LET t2 == <<Event("UpdateChecksum", 0, 0), Event("CheckIntegrity", 0, 0)>>
        Written(sums, backup_header, own, t3) ==
            IF sums.is_secondary
            THEN [res |-> "ok", gpt |-> sums, image |-> own, trace |-> t3]
            ELSE IF ~HeaderPackOk(backup_header)
            THEN [res |-> "struct.error", gpt |-> sums, image |-> own, trace |-> t3]
            ELSE [res |-> "ok", gpt |-> sums,
                  image |-> WriteBackupCopy(own, sums, backup_header),
                  trace |-> t3 \o
                    <<Event("WriteData Backup Partitions",
                            backup_header.PartitionEntriesStartingLBA, 0),
                      Event("WriteData Backup Header", backup_header.CurrentLBA, 0)>>]
        Checked(sums, integrity) ==
            IF integrity # "ok"
            THEN [res |-> integrity, gpt |-> sums, image |-> img, trace |-> t2]
            ELSE Written(sums, GetBackupHeader(sums, sums.header),
                         WriteOwnCopy(img, sums),
                         t2 \o <<Event("WriteData GPT Header",
                                       sums.header.CurrentLBA, 0),
                                 Event("WriteData GPT Partitions",
                                       sums.header.PartitionEntriesStartingLBA, 0)>>)
        Summed(sums) == Checked(sums, CheckIntegrity(sums))
        Packed(pack) ==
            IF pack # "ok"
            THEN [res |-> pack, gpt |-> gpt, image |-> img,
                  trace |-> <<Event("UpdateChecksum", 0, 0)>>]
            ELSE Summed(UpdateChecksum(gpt))
    IN Packed(UpdateChecksumResult(gpt))

(***************************************************************************)
(* Resize and ExpandPartition.                                             *)
(***************************************************************************)
ValidNumber(gpt, number) == 0 < number /\ number <= Len(gpt.partitions)

\* Resize with the overlap check done whatever check_overlap says
ResizeAlwaysChecks(gpt, new_size, check_overlap) ==
    LET Sized(backup_lba, last_usable_lba) ==
            IF new_size % gpt.block_size # 0 THEN [res |-> "GPTError", gpt |-> gpt]
            ELSE IF GetSize(gpt) = new_size THEN [res |-> "ok", gpt |-> gpt]
            ELSE IF /\ last_usable_lba < gpt.header.LastUsableLBA
                    /\ last_usable_lba < GetMaxUsedLBA(gpt)
                 THEN [res |-> "GPTError", gpt |-> gpt]
            ELSE [res |-> "ok",
                  gpt |-> [gpt EXCEPT !.header.BackupLBA = backup_lba,
                                      !.header.LastUsableLBA = last_usable_lba]]
    IN Sized((new_size \div gpt.block_size) - 1,
             (new_size \div gpt.block_size) - 1 - gpt.header.FirstUsableLBA)

\* Resize that raises when the size is unchanged
ResizeRejectsSameSize(gpt, new_size, check_overlap) ==
    LET Sized(backup_lba, last_usable_lba) ==
            IF new_size % gpt.block_size # 0 THEN [res |-> "GPTError", gpt |-> gpt]
            ELSE IF GetSize(gpt) = new_size THEN [res |-> "GPTError", gpt |-> gpt]
            ELSE IF /\ check_overlap
                    /\ last_usable_lba < gpt.header.LastUsableLBA
                    /\ last_usable_lba < GetMaxUsedLBA(gpt)
                 THEN [res |-> "GPTError", gpt |-> gpt]
            ELSE [res |-> "ok",
                  gpt |-> [gpt EXCEPT !.header.BackupLBA = backup_lba,
                                      !.header.LastUsableLBA = last_usable_lba]]
    IN Sized((new_size \div gpt.block_size) - 1,
             (new_size \div gpt.block_size) - 1 - gpt.header.FirstUsableLBA)

Resize(gpt, new_size, check_overlap) ==
    LET Sized(backup_lba, last_usable_lba) ==
            IF new_size % gpt.block_size # 0 THEN [res |-> "GPTError", gpt |-> gpt]
            ELSE IF GetSize(gpt) = new_size THEN [res |-> "ok", gpt |-> gpt]
            ELSE IF /\ check_overlap
                    /\ last_usable_lba < gpt.header.LastUsableLBA
                    /\ last_usable_lba < GetMaxUsedLBA(gpt)
                 THEN [res |-> "GPTError", gpt |-> gpt]
            ELSE [res |-> "ok",
                  gpt |-> [gpt EXCEPT !.header.BackupLBA = backup_lba,
                                      !.header.LastUsableLBA = last_usable_lba]]
    IN Sized((new_size \div gpt.block_size) - 1,
             (new_size \div gpt.block_size) - 1 - gpt.header.FirstUsableLBA)

\* ExpandPartition with >= for > in the test of the highest used LBA
ExpandPartitionNotBelow(gpt, number, reserved_blocks) ==
    LET fail == [res |-> "GPTError", gpt |-> gpt, old_blocks |-> 0, new_blocks |-> 0]
        Expanded(p, new_p) ==
            IF IsUnused(p) THEN fail
            ELSE IF GetMaxUsedLBA(gpt) >= p.LastLBA THEN fail
            ELSE [res |-> "ok", gpt |-> [gpt EXCEPT !.partitions[number] = new_p],
                  old_blocks |-> Blocks(p), new_blocks |-> Blocks(new_p)]
    IN IF ~ValidNumber(gpt, number) THEN fail
       ELSE Expanded(gpt.partitions[number],
                     [gpt.partitions[number] EXCEPT
                        !.LastLBA = gpt.header.LastUsableLBA - reserved_blocks])

\* ExpandPartition with the new LastLBA one block short
ExpandPartitionOneShort(gpt, number, reserved_blocks) ==
    LET fail == [res |-> "GPTError", gpt |-> gpt, old_blocks |-> 0, new_blocks |-> 0]
        Expanded(p, new_p) ==
            IF IsUnused(p) THEN fail
            ELSE IF GetMaxUsedLBA(gpt) > p.LastLBA THEN fail
            ELSE [res |-> "ok", gpt |-> [gpt EXCEPT !.partitions[number] = new_p],
                  old_blocks |-> Blocks(p), new_blocks |-> Blocks(new_p)]
    IN IF ~ValidNumber(gpt, number) THEN fail
       ELSE Expanded(gpt.partitions[number],
                     [gpt.partitions[number] EXCEPT
                        !.LastLBA = gpt.header.LastUsableLBA - reserved_blocks - 1])

ExpandPartition(gpt, number, reserved_blocks) ==
    LET fail == [res |-> "GPTError", gpt |-> gpt, old_blocks |-> 0, new_blocks |-> 0]
        Expanded(p, new_p) ==
            IF IsUnused(p) THEN fail
            ELSE IF GetMaxUsedLBA(gpt) > p.LastLBA THEN fail
            ELSE [res |-> "ok", gpt |-> [gpt EXCEPT !.partitions[number] = new_p],
                  old_blocks |-> Blocks(p), new_blocks |-> Blocks(new_p)]
    IN IF ~ValidNumber(gpt, number) THEN fail
       ELSE Expanded(gpt.partitions[number],
                     [gpt.partitions[number] EXCEPT
                        !.LastLBA = gpt.header.LastUsableLBA - reserved_blocks])

(***************************************************************************)
(* The command layer.  A command returns its result, the image it leaves,   *)
(* the GPT object it held last and the events of its run.                  *)
(***************************************************************************)
Outcome(res, gpt, img, trace) ==
    [res |-> res, gpt |-> gpt, image |-> img, trace |-> trace]

\* the outcome of a command that ends with gpt.WriteToFile(image) after the
\* events `before`
Wrote(before, w) == Outcome(w.res, w.gpt, w.image, before \o w.trace)

\* GPT.Create
GPTCreate(size, block_size, pad_blocks, disk_guid) ==
    LET Made(header) ==
            [header |-> header,
             partitions |-> [i \in 1..header.PartitionEntriesNumber |-> ZeroPartition],
             block_size |-> block_size, is_secondary |-> FALSE]
    IN Made(HeaderCreate(size, block_size, pad_blocks,
                         DEFAULT_PARTITION_ENTRIES, disk_guid))

\* GPTCommands.Create.Execute; block_size 0 stands for no --block_size
CreateExecute(img, zero, pad_blocks, block_size_arg, disk_guid) ==
    LET Zeroed(gpt, zeroed) ==
            IF zero
            THEN Wrote(<<Event("write zeros", 0, zeroed)>>,
                       WriteToFile(gpt,
                          WriteCells(img,
                             [c \in 0..((zeroed \div PARTITION_ENTRY_SIZE) - 1)
                                |-> ZeroCell],
                             zeroed)))
            ELSE Wrote(<<>>, WriteToFile(gpt, img))
        Created(gpt) == Zeroed(gpt, gpt.block_size * gpt.header.FirstUsableLBA)
    IN Created(GPTCreate(img.size,
                         IF block_size_arg = 0 THEN DEFAULT_BLOCK_SIZE
                         ELSE block_size_arg,
                         pad_blocks, disk_guid))

\* GPTCommands.Legacy.Execute.  With --primary-ignore the command overwrites
\* the signature on the image and then reads self.header, which the command
\* object does not have.
LegacyExecute(img, efi, primary_ignore) ==
    LET Marked(old) ==
            IF old.k = "hdr"
            THEN HeaderCell([old.h EXCEPT !.Signature = SIGNATURE_IGNORE])
            ELSE JunkCell
        Ignore(ld, gpt, c) ==
            Outcome("AttributeError", gpt,
                    WriteCells(img, [x \in {c} |-> Marked(CellAt(img, c))],
                               gpt.header.CurrentLBA * gpt.block_size + 8),
                    Append(ld.trace,
                           Event("write signature", gpt.header.CurrentLBA, 0)))
        Loaded(ld, gpt) ==
            IF ld.res # "ok" THEN Outcome(ld.res, gpt, img, ld.trace)
            ELSE IF primary_ignore
            THEN IF gpt.is_secondary THEN Outcome("GPTError", gpt, img, ld.trace)
                 ELSE Ignore(ld, gpt,
                             (gpt.header.CurrentLBA * gpt.block_size)
                                \div PARTITION_ENTRY_SIZE)
            ELSE Wrote(ld.trace,
                       WriteToFile([gpt EXCEPT !.header.Signature =
                                        SIGNATURES[IF efi THEN 1 ELSE 2]], img))
        Start(ld) == Loaded(ld, ld.gpt)
    IN Start(LoadFromFile(img))

\* GPTCommands.Repair.Execute
RepairExecute(img) ==
    LET Resized(ld, rs) ==
            IF rs.res # "ok" THEN Outcome(rs.res, rs.gpt, img, ld.trace)
            ELSE Wrote(ld.trace, WriteToFile(rs.gpt, img))
        Loaded(ld) ==
            IF ld.res # "ok" THEN Outcome(ld.res, ld.gpt, img, ld.trace)
            ELSE Resized(ld, Resize(ld.gpt, img.size, TRUE))
    IN Loaded(LoadFromFile(img))

\* GPTCommands.Expand.Execute: the outcome, and the block counts of the
\* partition before and after
ExpandExecute(img, number) ==
    LET Expanded(ld, ex) ==
            IF ex.res # "ok" THEN Outcome(ex.res, ex.gpt, img, ld.trace)
            ELSE Wrote(ld.trace, WriteToFile(ex.gpt, img))
        Loaded(ld) ==
            IF ld.res # "ok" THEN Outcome(ld.res, ld.gpt, img, ld.trace)
            ELSE Expanded(ld, ExpandPartition(ld.gpt, number, 0))
    IN Loaded(LoadFromFile(img))

\* the attribute arguments of Add in the order UpdateAttr applies them
AttrFields ==
    << [name |-> "legacy_boot", shift |-> 2, mask |-> 1],
       [name |-> "required", shift |-> 0, mask |-> 1],
       [name |-> "priority", shift |-> 48, mask |-> 15],
       [name |-> "tries", shift |-> 52, mask |-> 15],
       [name |-> "successful", shift |-> 56, mask |-> 1] >>

\* Add.Execute.UpdateAttr for the k-th and the following attribute arguments
RECURSIVE UpdateAttrs(_, _, _)
UpdateAttrs(raw, args, k) ==
    IF k > Len(AttrFields) THEN [res |-> "ok", raw |-> raw]
    ELSE IF AttrFields[k].name \notin args.has THEN UpdateAttrs(raw, args, k + 1)
    ELSE IF ~BitFits(args[AttrFields[k].name], AttrFields[k].mask)
         THEN [res |-> "AssertionError", raw |-> raw]
    ELSE UpdateAttrs(BitSet(raw, AttrFields[k].shift, AttrFields[k].mask,
                            args[AttrFields[k].name]),
                     args, k + 1)

\* an argument of a command, or the default when it was not given
GetArg(args, name, default_value) ==
    IF name \in args.has THEN args[name] ELSE default_value

\* Add.Execute with a new partition placed two blocks past GetMaxUsedLBA
AddExecuteSkipsBlock(img, args, random_guid) ==
    LET Store(ld, gpt, number, part) ==
            Wrote(ld.trace, WriteToFile([gpt EXCEPT !.partitions[number] = part], img))
        Updated(ld, gpt, number, part, first_lba, attrs) ==
            IF attrs.res # "ok" THEN Outcome(attrs.res, gpt, img, ld.trace)
            ELSE IF GetArg(args, "type_guid", part.TypeGUID) = TYPE_GUID_UNUSED
            THEN Store(ld, gpt, number, ZeroPartition)
            ELSE Store(ld, gpt, number,
                       [Names |-> GetArg(args, "label", part.Names),
                        FirstLBA |-> first_lba,
                        LastLBA |-> first_lba - 1
                                      + GetArg(args, "sectors", Blocks(part)),
                        TypeGUID |-> GetArg(args, "type_guid", part.TypeGUID),
                        UniqueGUID |-> GetArg(args, "unique_guid", part.UniqueGUID),
                        Attributes |-> attrs.raw])
        Selected(ld, gpt, number, part) ==
            Updated(ld, gpt, number, part, GetArg(args, "begin", part.FirstLBA),
                    UpdateAttrs(part.Attributes, args, 1))
        Numbered(ld, gpt, number) ==
            IF ~ValidNumber(gpt, number) THEN Outcome("GPTError", gpt, img, ld.trace)
            ELSE IF IsUnused(gpt.partitions[number])
            THEN Selected(ld, gpt, number,
                          [ZeroPartition EXCEPT
                             !.FirstLBA = GetMaxUsedLBA(gpt) + 2,
                             !.LastLBA = gpt.header.LastUsableLBA,
                             !.UniqueGUID = random_guid,
                             !.TypeGUID = TYPE_GUID_LINUX_DATA])
            ELSE Selected(ld, gpt, number, gpt.partitions[number])
        Unused(ld, gpt, unused) ==
            IF "number" \in args.has THEN Numbered(ld, gpt, args.number)
            ELSE IF unused = {} THEN Outcome("StopIteration", gpt, img, ld.trace)
            ELSE Numbered(ld, gpt, CHOOSE i \in unused : \A j \in unused : i <= j)
        Loaded(ld, gpt) ==
            IF ld.res # "ok" THEN Outcome(ld.res, gpt, img, ld.trace)
            ELSE Unused(ld, gpt,
                        {i \in 1..Len(gpt.partitions) : IsUnused(gpt.partitions[i])})
        Start(ld) == Loaded(ld, ld.gpt)
    IN Start(LoadFromFile(img))

\* GPTCommands.Add.Execute
AddExecute(img, args, random_guid) ==
    LET Store(ld, gpt, number, part) ==
            Wrote(ld.trace, WriteToFile([gpt EXCEPT !.partitions[number] = part], img))
        Updated(ld, gpt, number, part, first_lba, attrs) ==
            IF attrs.res # "ok" THEN Outcome(attrs.res, gpt, img, ld.trace)
            ELSE IF GetArg(args, "type_guid", part.TypeGUID) = TYPE_GUID_UNUSED
            THEN Store(ld, gpt, number, ZeroPartition)
            ELSE Store(ld, gpt, number,
                       [Names |-> GetArg(args, "label", part.Names),
                        FirstLBA |-> first_lba,
                        LastLBA |-> first_lba - 1
                                      + GetArg(args, "sectors", Blocks(part)),
                        TypeGUID |-> GetArg(args, "type_guid", part.TypeGUID),
                        UniqueGUID |-> GetArg(args, "unique_guid", part.UniqueGUID),
                        Attributes |-> attrs.raw])
        Selected(ld, gpt, number, part) ==
            Updated(ld, gpt, number, part, GetArg(args, "begin", part.FirstLBA),
                    UpdateAttrs(part.Attributes, args, 1))
        Numbered(ld, gpt, number) ==
            IF ~ValidNumber(gpt, number) THEN Outcome("GPTError", gpt, img, ld.trace)
            ELSE IF IsUnused(gpt.partitions[number])
            THEN Selected(ld, gpt, number,
                          [ZeroPartition EXCEPT
                             !.FirstLBA = GetMaxUsedLBA(gpt) + 1,
                             !.LastLBA = gpt.header.LastUsableLBA,
                             !.UniqueGUID = random_guid,
                             !.TypeGUID = TYPE_GUID_LINUX_DATA])
            ELSE Selected(ld, gpt, number, gpt.partitions[number])
        Unused(ld, gpt, unused) ==
            IF "number" \in args.has THEN Numbered(ld, gpt, args.number)
            ELSE IF unused = {} THEN Outcome("StopIteration", gpt, img, ld.trace)
            ELSE Numbered(ld, gpt, CHOOSE i \in unused : \A j \in unused : i <= j)
        Loaded(ld, gpt) ==
            IF ld.res # "ok" THEN Outcome(ld.res, gpt, img, ld.trace)
            ELSE Unused(ld, gpt,
                        {i \in 1..Len(gpt.partitions) : IsUnused(gpt.partitions[i])})
        Start(ld) == Loaded(ld, ld.gpt)
    IN Start(LoadFromFile(img))

\* new priorities that count down from highest without the floor of 1
NewAttributesNoFloor(raw, highest, i) ==
    LET Set(new_priority, set) ==
            IF Priority(raw) = new_priority THEN raw
            ELSE IF Tries(set) < 1 /\ Successful(set) = 0
                 THEN BitSet(set, 52, 15, 15)
            ELSE set
    IN Set(Max2(0, highest - i), BitSet(raw, 48, 15, Max2(0, highest - i)))

\* new attributes that also set the required bit
NewAttributesSetsRequired(raw, highest, i) ==
    LET Set(new_priority, set) ==
            IF Priority(raw) = new_priority THEN raw
            ELSE IF Tries(set) < 1 /\ Successful(set) = 0
                 THEN BitSet(set, 52, 15, 15)
            ELSE set
    IN Set(Max2(1, highest - i),
           BitSet(BitSet(raw, 0, 1, 1), 48, 15, Max2(1, highest - i)))

\* the enumerate(prios) loop of Prioritize: the new attribute word of a
\* partition of the group that is i-th (from 0) in descending order
NewAttributes(raw, highest, i) ==
    LET Set(new_priority, set) ==
            IF Priority(raw) = new_priority THEN raw
            ELSE IF Tries(set) < 1 /\ Successful(set) = 0
                 THEN BitSet(set, 52, 15, 15)
            ELSE set
    IN Set(Max2(1, highest - i), BitSet(raw, 48, 15, Max2(1, highest - i)))

\* GPTCommands.Prioritize.Execute; number 0 and priority 0 stand for an
\* argument that was not given (the code tests both for truth)
PrioritizeExecute(img, number, friends_arg, priority_arg) ==
    LET \* the enumerate loop over the groups in descending priority
        Renumber(ld, gpt, groups, prios, highest) ==
            Wrote(ld.trace,
                  WriteToFile(
                    [gpt EXCEPT !.partitions =
                        [i \in 1..Len(gpt.partitions) |->
                            IF \E k \in prios : i \in groups[k]
                            THEN [gpt.partitions[i] EXCEPT
                                    !.Attributes =
                                       NewAttributes(@, highest,
                                          Cardinality({j \in prios :
                                             j > (CHOOSE kk \in prios :
                                                    i \in groups[kk])}))]
                            ELSE gpt.partitions[i]]],
                    img))
        Grouped(ld, gpt, groups, prios) ==
            Renumber(ld, gpt, groups, prios,
                     Min2(IF priority_arg # 0 THEN priority_arg
                          ELSE Cardinality(prios), 15))
        \* groups[new_pri] is assigned first and groups[pri] = friends after it
        Promoted(ld, gpt, groups0, pri, new_pri, promoted, left) ==
            Grouped(ld, gpt,
                    [k \in ((DOMAIN groups0 \ {pri}) \cup {new_pri}
                                \cup (IF left # {} THEN {pri} ELSE {})) |->
                        IF k = pri /\ left # {} THEN left
                        ELSE IF k = new_pri THEN promoted
                        ELSE groups0[k]],
                    ((DOMAIN groups0 \ {pri}) \cup {new_pri}
                        \cup (IF left # {} THEN {pri} ELSE {})) \ {0})
        Moved(ld, gpt, groups0, pri, rest, promoted) ==
            IF rest = {} THEN Outcome("ValueError", gpt, img, ld.trace)
            ELSE Promoted(ld, gpt, groups0, pri,
                          (CHOOSE m \in rest : \A k \in rest : k <= m) + 1,
                          promoted, groups0[pri] \ promoted)
        Keyed(ld, gpt, parts, groups0) ==
            IF number = 0 THEN Grouped(ld, gpt, groups0, DOMAIN groups0 \ {0})
            ELSE IF ~ValidNumber(gpt, number)
                 THEN Outcome("GPTError", gpt, img, ld.trace)
            ELSE IF number \notin parts THEN Outcome("GPTError", gpt, img, ld.trace)
            ELSE Moved(ld, gpt, groups0, Priority(gpt.partitions[number].Attributes),
                       DOMAIN groups0
                          \ {Priority(gpt.partitions[number].Attributes)},
                       IF friends_arg
                       THEN groups0[Priority(gpt.partitions[number].Attributes)]
                       ELSE {number})
        Kernels(ld, gpt, parts) ==
            Keyed(ld, gpt, parts,
                  [k \in {Priority(gpt.partitions[i].Attributes) : i \in parts} |->
                      {i \in parts : Priority(gpt.partitions[i].Attributes) = k}])
        Loaded(ld, gpt) ==
            IF ld.res # "ok" THEN Outcome(ld.res, gpt, img, ld.trace)
            ELSE Kernels(ld, gpt,
                         {i \in 1..Len(gpt.partitions) :
                              IsChromeOSKernel(gpt.partitions[i])})
        Start(ld) == Loaded(ld, ld.gpt)
    IN Start(LoadFromFile(img))

(***************************************************************************)
(* Show.                                                                   *)
(***************************************************************************)
TYPE_GUID_EFI == "C12A7328-F81F-11D2-BA4B-00A0C93EC93B"

TYPE_GUID_MAP ==
    (TYPE_GUID_UNUSED :> "Unused")
    @@ ("EBD0A0A2-B9E5-4433-87C0-68B6B72699C7" :> "Basic data stateful")
    @@ (TYPE_GUID_LINUX_DATA :> "Linux data")
    @@ (TYPE_GUID_CHROMEOS_KERNEL :> "ChromeOS kernel")
    @@ ("3CB8E202-3B7E-47DD-8A3C-7FF2A13CFCEC" :> "ChromeOS rootfs")
    @@ ("2E0A753D-9E48-43B0-8337-B15192CB1B5E" :> "ChromeOS reserved")
    @@ ("CAB6E88E-ABF3-4102-A07A-D4BB9BE3C1D3" :> "ChromeOS firmware")
    @@ (TYPE_GUID_EFI :> "EFI System Partition")
    @@ ("09845860-705F-4BB5-B16C-8A8A099CAF52" :> "ChromeOS MINIOS")
    @@ ("3F0F8318-F146-4E6B-8222-C28C8F02E0D5" :> "ChromeOS hibernate")

TYPE_GUID_LIST_BOOTABLE == <<TYPE_GUID_CHROMEOS_KERNEL, TYPE_GUID_EFI>>

\* a string the program prints as it is
Text(s) == [s |-> s, case |-> "as is"]

\* GUID.__str__: the textual form of the GUID, in upper case
GUIDStr(guid) == [s |-> guid, case |-> "upper"]

\* Show.Execute.FormatTypeGUID
FormatTypeGUID(p, numeric) ==
    IF ~numeric /\ p.TypeGUID \in DOMAIN TYPE_GUID_MAP
    THEN Text(TYPE_GUID_MAP[p.TypeGUID])
    ELSE GUIDStr(p.TypeGUID)

\* Show.Execute.IsBootableType
IsBootableType(guid) == guid \in SeqRange(TYPE_GUID_LIST_BOOTABLE)

\* the raw 16-bit attribute value (bits 48-63) in brackets, as hex digits
Raw16(raw) == [hex |-> {i - 48 : i \in {j \in raw : j >= 48}}]

\* Show.Execute.FormatAttribute: the words of the attribute line
FormatAttribute(raw, numeric, chromeos_kernel) ==
    IF numeric THEN Raw16(raw)
    ELSE (IF chromeos_kernel
          THEN << <<"priority", Priority(raw)>>, <<"tries", Tries(raw)>>,
                  <<"successful", Successful(raw)>> >>
          ELSE <<>>)
         \o (IF Required(raw) # 0 THEN << <<"required", 1>> >> ELSE <<>>)
         \o (IF LegacyBoot(raw) # 0 THEN << <<"legacy_boot", 1>> >> ELSE <<>>)

\* the format arguments of show
FORMAT_ARGS ==
    <<"begin", "size", "type", "unique", "label", "Successful", "Tries",
      "Priority", "Legacy", "Attribute">>

\* Show.Execute.ApplyFormatArgs: the value printed for the first format
\* argument, in the order the code tests them
ApplyFormatArgs(p, flags, numeric) ==
    IF "begin" \in flags THEN p.FirstLBA
    ELSE IF "size" \in flags THEN Blocks(p)
    ELSE IF "type" \in flags THEN FormatTypeGUID(p, numeric)
    ELSE IF "unique" \in flags THEN GUIDStr(p.UniqueGUID)
    ELSE IF "label" \in flags THEN p.Names
    ELSE IF "Successful" \in flags THEN Successful(p.Attributes)
    ELSE IF "Priority" \in flags THEN Priority(p.Attributes)
    ELSE IF "Tries" \in flags THEN Tries(p.Attributes)
    ELSE IF "Legacy" \in flags THEN LegacyBoot(p.Attributes)
    ELSE Raw16(p.Attributes)

\* one printed line: a row of the table (fmt: the heading, a block of the GPT
\* or a partition), a detail of a partition (fmt2), or a bare value
Line(kind, start, size, part, contents) ==
    [kind |-> kind, start |-> start, size |-> size, part |-> part,
     contents |-> contents]

Detail(key, value) == Line("detail", "", "", "", <<key, value>>)

\* the lines show prints for partition number i
PartitionLines(p, i, flags, numeric, quick) ==
    IF flags \cap SeqRange(FORMAT_ARGS) # {}
    THEN <<Line("value", "", "", "", ApplyFormatArgs(p, flags, numeric))>>
    ELSE IF quick
    THEN <<Line("partition", p.FirstLBA, Blocks(p), i,
                FormatTypeGUID(p, numeric))>>
    ELSE <<Line("partition", p.FirstLBA, Blocks(p), i, <<"Label", p.Names>>),
           Detail("Type", FormatTypeGUID(p, numeric)),
           Detail("UUID", GUIDStr(p.UniqueGUID))>>
         \o (IF numeric \/ IsBootableType(p.TypeGUID)
             THEN <<Detail("Attr", FormatAttribute(p.Attributes, numeric,
                                                  IsChromeOSKernel(p)))>>
             ELSE <<>>)

\* the numbers of the partitions the for loop does not skip, in table order
ShownPartitions(gpt, number) ==
    IF number = 0 THEN GetUsedPartitions(gpt)
    ELSE IF number \in 1..Len(gpt.partitions) THEN <<number>>
    ELSE <<>>

\* the for loop over the partitions, from the k-th shown one on
RECURSIVE ShowPartitions(_, _, _, _, _, _)
ShowPartitions(parts, shown, k, flags, numeric, quick) ==
    IF k > Len(shown) THEN <<>>
    ELSE PartitionLines(parts[shown[k]], shown[k], flags, numeric, quick)
         \o ShowPartitions(parts, shown, k + 1, flags, numeric, quick)

\* the events of a show that printed `lines` after the events `before`
Printed(before, lines) ==
    before \o [i \in 1..Len(lines) |-> Event("print", i, 0)]

\* a show that runs CheckIntegrity before it prints anything
ShowExecuteChecksFirst(img, args) ==
    LET Start(ld) ==
            [res |-> IF ld.res # "ok" THEN ld.res ELSE CheckIntegrity(ld.gpt),
             gpt |-> ld.gpt, image |-> img,
             trace |-> Append(ld.trace, Event("CheckIntegrity", 0, 0)),
             output |-> <<>>]
    IN Start(LoadFromFile(img))

\* GPTCommands.Show.Execute; number 0 stands for no -i.  The outcome carries
\* the printed lines.  No command of the model writes a protective MBR, so
\* gpt.pmbr is None and the PMBR line is not printed.
ShowExecute(img, args) ==
    LET number == args.number
        flags == args.has
        numeric == "numeric" \in args.has
        quick == "quick" \in args.has
        formatted == args.has \cap SeqRange(FORMAT_ARGS) # {}
        Result(res, gpt, trace, lines) ==
            [res |-> res, gpt |-> gpt, image |-> img, trace |-> trace,
             output |-> lines]
        Checked(gpt, before, lines) ==
            Result(CheckIntegrity(gpt), gpt,
                   Append(Printed(before, lines), Event("CheckIntegrity", 0, 0)),
                   lines)
        \* the lines of the backup table and header
        Secondary(gpt, before, lines, header) ==
            Checked(gpt, before,
                    lines \o <<Line("block", header.PartitionEntriesStartingLBA,
                                    GetPartitionTableBlocks(gpt, header), "",
                                    "Sec GPT table"),
                               Line("block", header.CurrentLBA, 1, "",
                                    "Sec GPT header")>>)
        Listed(gpt, before, lines, blocks) ==
            IF ~blocks THEN Checked(gpt, before, lines)
            ELSE IF gpt.is_secondary THEN Secondary(gpt, before, lines, gpt.header)
            ELSE IF gpt.header.BackupLBA * gpt.block_size + HEADER_SIZE > img.size
                 THEN Result("struct.error", gpt, Printed(before, lines), lines)
            ELSE Secondary(gpt, before, lines,
                           ReadHeader(img, gpt.header.BackupLBA * gpt.block_size))
        Heading(gpt, before, blocks) ==
            Listed(gpt, before,
                   (IF ~(quick \/ formatted)
                    THEN <<Line("heading", "start", "size", "part", "contents")>>
                    ELSE <<>>)
                   \o (IF ~blocks THEN <<>>
                       ELSE IF gpt.is_secondary
                       THEN <<Line("block", gpt.header.BackupLBA, 1, "IGNORED",
                                   "Pri GPT header")>>
                       ELSE <<Line("block", gpt.header.CurrentLBA, 1, "",
                                   "Pri GPT header"),
                              Line("block", gpt.header.PartitionEntriesStartingLBA,
                                   GetPartitionTableBlocks(gpt, gpt.header), "",
                                   "Pri GPT table")>>)
                   \o ShowPartitions(gpt.partitions, ShownPartitions(gpt, number),
                                     1, flags, numeric, quick),
                   blocks)
        Loaded(ld, gpt) ==
            IF ld.res # "ok" THEN Result(ld.res, gpt, ld.trace, <<>>)
            ELSE IF formatted /\ number = 0
                 THEN Result("GPTError", gpt, ld.trace, <<>>)
            ELSE IF ~(number = 0 \/ number <= gpt.header.PartitionEntriesNumber)
                 THEN Result("GPTError", gpt, ld.trace, <<>>)
            ELSE Heading(gpt, ld.trace, ~(quick \/ formatted) /\ number = 0)
        Start(ld) == Loaded(ld, ld.gpt)
    IN Start(LoadFromFile(img))

(***************************************************************************)
(* Find.                                                                   *)
(***************************************************************************)
\* Find.Execute.Unmatch over the search arguments that were given
Unmatched(p, args) ==
    \/ ("label" \in args.has /\ args.label # p.Names)
    \/ ("unique_guid" \in args.has /\ args.unique_guid # p.UniqueGUID)
    \/ ("type_guid" \in args.has /\ args.type_guid # p.TypeGUID)

\* the numbers of the partitions of gpt the inner loop reports, in table order
FindMatches(gpt, args) ==
    LET all == [i \in 1..Len(gpt.partitions) |-> i]
        Match(i) == ~IsUnused(gpt.partitions[i])
                       /\ ~Unmatched(gpt.partitions[i], args)
    IN SelectSeq(all, Match)

\* the line printed for partition number i of the table loaded from drive:
\* the number, or the name of the drive, a "p" after a digit, and the number
FoundLine(drive, i, numeric) ==
    IF numeric THEN [image |-> "", p |-> "", number |-> i]
    ELSE [image |-> drive.name, p |-> IF drive.digit THEN "p" ELSE "",
          number |-> i]

\* the for loop over the drives from the k-th on.  st holds the local
\* variables: bound (gpt has been assigned), gpt, owner (the drive gpt was
\* loaded from), and the lines printed and the tables examined so far.
RECURSIVE FindLoop(_, _, _, _, _)
FindLoop(drives, k, named, args, st) ==
    LET Examine(gpt, owner) ==
            FindLoop(drives, k + 1, named, args,
                     [bound |-> TRUE, gpt |-> gpt, owner |-> owner,
                      output |-> st.output
                         \o [j \in 1..Len(FindMatches(gpt, args)) |->
                                FoundLine(drives[owner],
                                          FindMatches(gpt, args)[j],
                                          "numeric" \in args.has)],
                      trace |-> Append(st.trace, Event("examine", owner, k))])
        Raised(res) ==
            [res |-> res, gpt |-> st.gpt, output |-> st.output,
             trace |-> st.trace]
        Loaded(ld) ==
            IF ld.res = "ok" THEN Examine(ld.gpt, k)
            ELSE IF ld.res # "GPTError" THEN Raised(ld.res)
            ELSE IF named THEN Raised("GPTError")
            ELSE IF ~st.bound THEN Raised("UnboundLocalError")
            ELSE Examine(st.gpt, st.owner)
    IN IF k > Len(drives)
       THEN [res |-> IF Len(st.output) < 1
                        \/ ("single_match" \in args.has /\ Len(st.output) > 1)
                     THEN "exit 1" ELSE "ok",
             gpt |-> st.gpt, output |-> st.output, trace |-> st.trace]
       ELSE Loaded(LoadFromFile(drives[k].image))

\* GPTCommands.Find.Execute without --match-file: on the named drive, or on
\* the drives lsblk lists
FindExecute(drives, named, args) ==
    IF args.has \cap {"type_guid", "unique_guid", "label"} = {}
    THEN [res |-> "GPTError", gpt |-> NoGPT, output |-> <<>>, trace |-> <<>>]
    ELSE FindLoop(drives, 1, named, args,
                  [bound |-> FALSE, gpt |-> NoGPT, owner |-> 0,
                   output |-> <<>>, trace |-> <<>>])

(***************************************************************************)
(* The state machine: operations run one after another on one image and    *)
(* one GPT object.                                                         *)
(***************************************************************************)
VARIABLES
    image,   \* the backing image
    gpt,     \* the GPT object of the last operation
    last,    \* the last operation: its name, arguments, result and events
    steps    \* the number of operations so far that can change image or object

vars == <<image, gpt, last, steps>>

\* sizes of the image file, in bytes
ImageSizes == {8192, 20480, 65536}

\* values GUID.Random() returns
RandomGUIDs == <<"G1", "G2", "G3", "G4", "G5">>
DiskGUIDs == {"D1"}
DiskGUIDs_First == CHOOSE g \in DiskGUIDs : TRUE

NoArgs ==
    [has |-> {}, number |-> 0, begin |-> 0, sectors |-> 0,
     type_guid |-> ZERO_GUID, unique_guid |-> ZERO_GUID, label |-> <<>>,
     legacy_boot |-> 0, required |-> 0, priority |-> 0, tries |-> 0,
     successful |-> 0]

\* the argument lists of Add the model runs
AddArgs ==
    { [NoArgs EXCEPT !.has = {"type_guid", "sectors", "priority"},
                     !.type_guid = TYPE_GUID_CHROMEOS_KERNEL, !.sectors = 8,
                     !.priority = 2],
      [NoArgs EXCEPT !.has = {"type_guid"},
                     !.type_guid = TYPE_GUID_CHROMEOS_KERNEL],
      [NoArgs EXCEPT !.has = {"number", "begin", "sectors", "label"},
                     !.number = MaxParts, !.begin = 41, !.sectors = 4,
                     !.label = <<75>>],
      [NoArgs EXCEPT !.has = {"number", "type_guid"},
                     !.number = 1, !.type_guid = TYPE_GUID_UNUSED],
      [NoArgs EXCEPT !.has = {"number", "begin", "sectors"},
                     !.number = MaxParts, !.begin = 20, !.sectors = 4],
      [NoArgs EXCEPT !.has = {"number", "sectors", "tries"},
                     !.number = 1, !.sectors = 2, !.tries = 16],
      [NoArgs EXCEPT !.has = {"number", "begin", "sectors", "tries"},
                     !.number = MaxParts, !.begin = 36, !.sectors = 2,
                     !.tries = 16],
      [NoArgs EXCEPT !.has = {"number", "type_guid", "begin", "sectors", "label",
                              "priority"},
                     !.number = 1, !.type_guid = TYPE_GUID_UNUSED, !.begin = 41,
                     !.sectors = 4, !.label = <<75>>, !.priority = 3],
      [NoArgs EXCEPT !.has = {"number", "type_guid", "tries"},
                     !.number = 1, !.type_guid = TYPE_GUID_UNUSED, !.tries = 16] }

NoLast ==
    [op |-> "none", res |-> "ok", trace |-> <<>>, number |-> 0, flag |-> FALSE,
     reserved_blocks |-> 0, old_blocks |-> 0, new_blocks |-> 0, old_size |-> 0,
     args |-> NoArgs, output |-> <<>>, drives |-> <<>>]

Init ==
    /\ image \in {BlankImage(size) : size \in ImageSizes}
    /\ gpt = NoGPT
    /\ last = NoLast
    /\ steps = 0

\* a command has run with the argument list `args` and outcome `out`
RanWith(op, out, number, flag, args) ==
    /\ steps < MaxSteps
    /\ steps' = steps + 1
    /\ image' = out.image
    /\ gpt' = out.gpt
    /\ last' = [NoLast EXCEPT !.op = op, !.res = out.res, !.trace = out.trace,
                              !.number = number, !.flag = flag, !.args = args]

\* a command has run with outcome `out`
Ran(op, out, number, flag) == RanWith(op, out, number, flag, NoArgs)

Create ==
    \E zero \in BOOLEAN, disk_guid \in DiskGUIDs :
        Ran("create", CreateExecute(image, zero, 0, 0, disk_guid), 0, zero)

\* GUID.Random() returns a value no entry of the image holds; the values are
\* interchangeable, so the first such value stands for all
FreshGUID(img, k) ==
    /\ \A c \in DOMAIN img.cells : img.cells[c].e.UniqueGUID # RandomGUIDs[k]
    /\ \A j \in 1..(k - 1) :
          \E c \in DOMAIN img.cells : img.cells[c].e.UniqueGUID = RandomGUIDs[j]

Add ==
    \E args \in AddArgs :
        \E k \in 1..Len(RandomGUIDs) :
            /\ FreshGUID(image, k)
            /\ RanWith("add", AddExecute(image, args, RandomGUIDs[k]),
                       GetArg(args, "number", 0), FALSE, args)

Expand ==
    \E number \in 1..MaxParts :
        Ran("expand", ExpandExecute(image, number), number, FALSE)

Repair == Ran("repair", RepairExecute(image), 0, FALSE)

Legacy ==
    \E efi \in BOOLEAN, primary_ignore \in BOOLEAN :
        /\ primary_ignore => ~efi
        /\ Ran("legacy", LegacyExecute(image, efi, primary_ignore), 0, primary_ignore)

\* the -P arguments of prioritize: not given, the lowest, one above the cap
PriorityArgs == {0, 1, 20}

Prioritize ==
    \E number \in 0..MaxParts, friends \in BOOLEAN, priority \in PriorityArgs :
        /\ friends => number # 0
        /\ RanWith("prioritize",
                   PrioritizeExecute(image, number, friends, priority),
                   number, friends,
                   [NoArgs EXCEPT !.has = IF priority = 0 THEN {} ELSE {"priority"},
                                  !.priority = priority])

\* GPT.LoadFromFile alone, as every read-only use starts
Load ==
    /\ last.op # "load"
    /\ image' = image
    /\ gpt' = LoadFromFile(image).gpt
    /\ last' = [NoLast EXCEPT !.op = "load", !.res = LoadFromFile(image).res,
                              !.trace = LoadFromFile(image).trace,
                              !.number = last.number,
                              !.flag = (last.op = "create" /\ last.res = "ok")]
    /\ UNCHANGED steps

\* the image file is truncated or extended outside the commands
SetImageSize ==
    \E size \in ImageSizes :
        /\ size # image.size
        /\ steps < MaxSteps
        /\ steps' = steps + 1
        /\ image' = [size |-> size,
                     cells |-> [c \in {x \in DOMAIN image.cells :
                                        (x + 1) * PARTITION_ENTRY_SIZE <= size}
                                   |-> image.cells[c]]]
        /\ last' = [NoLast EXCEPT !.op = "truncate"]
        /\ UNCHANGED gpt

Next ==
    \/ Create
    \/ Add
    \/ Expand
    \/ Repair
    \/ Legacy
    \/ Prioritize
    \/ Load
    \/ SetImageSize

Spec == Init /\ [][Next]_vars

(***************************************************************************)
(* LoadFromFile on images made with any block size and padding.            *)
(***************************************************************************)
\* the --block_size (0: not given) and --pad_blocks arguments of create
BlockSizeArgs == {0, 1024, BLOCK_SIZE_4K}
PadBlocks == {0, 7}

\* sizes of the image file: one too short to hold every header location, and
\* one of 100 blocks of 512 bytes
LoadImageSizes == {2048, 51200, 65536}

InitLoad ==
    /\ image \in {BlankImage(size) : size \in LoadImageSizes}
    /\ gpt = NoGPT
    /\ last = NoLast
    /\ steps = 0

CreateWith ==
    \E zero \in BOOLEAN, pad_blocks \in PadBlocks, block_size \in BlockSizeArgs :
        Ran("create",
            CreateExecute(image, zero, pad_blocks, block_size, DiskGUIDs_First),
            pad_blocks, zero)

NextLoad ==
    \/ CreateWith
    \/ Legacy
    \/ Load

LoadSpec == InitLoad /\ [][NextLoad]_vars

(***************************************************************************)
(* The commands on an image that holds a table with partitions.            *)
(***************************************************************************)
\* the arguments of the add that made an entry of a prepared table: a kernel
\* of 8 blocks with a priority, or a data partition of 8 blocks
KernelArgs(priority) ==
    [NoArgs EXCEPT !.has = {"type_guid", "sectors", "priority"},
                   !.type_guid = TYPE_GUID_CHROMEOS_KERNEL, !.sectors = 8,
                   !.priority = priority]

DataArgs ==
    [NoArgs EXCEPT !.has = {"type_guid", "sectors"},
                   !.type_guid = TYPE_GUID_LINUX_DATA, !.sectors = 8]

\* a kernel that booted: named, with every flag set and tries left
BootedKernelArgs(priority) ==
    [NoArgs EXCEPT !.has = {"type_guid", "sectors", "priority", "tries",
                            "successful", "required", "legacy_boot", "label"},
                   !.type_guid = TYPE_GUID_CHROMEOS_KERNEL, !.sectors = 8,
                   !.priority = priority, !.tries = 3, !.successful = 1,
                   !.required = 1, !.legacy_boot = 1, !.label = <<75>>]

\* the tables: empty, one kernel, kernels that share one priority, kernels of
\* several priorities, kernels of priority 0, a data partition first, kernels
\* that booted
PreparedTables ==
    { <<>>,
      <<KernelArgs(2)>>,
      <<KernelArgs(2), KernelArgs(2)>>,
      <<KernelArgs(1), KernelArgs(3), KernelArgs(1)>>,
      <<KernelArgs(1), KernelArgs(1), KernelArgs(0)>>,
      <<KernelArgs(15), KernelArgs(3), KernelArgs(0)>>,
      <<DataArgs, KernelArgs(1), KernelArgs(3)>>,
      <<BootedKernelArgs(5), KernelArgs(2)>>,
      <<BootedKernelArgs(0), KernelArgs(4)>> }

\* the image after create and one add for each entry from the k-th on
RECURSIVE Prepared(_, _, _)
Prepared(img, adds, k) ==
    IF k > Len(adds) THEN img
    ELSE Prepared(AddExecute(img, adds[k], RandomGUIDs[k]).image, adds, k + 1)

TableImageSize == 65536

\* the commands that prepared the table are counted: one more command runs,
\* and the read-only operations after it
InitTable ==
    /\ image \in {Prepared(CreateExecute(BlankImage(TableImageSize), FALSE, 0, 0,
                                         DiskGUIDs_First).image, adds, 1) :
                        adds \in PreparedTables}
    /\ gpt = NoGPT
    /\ last = NoLast
    /\ steps = MaxSteps - 1

\* the argument lists of show the model runs
ShowArgs ==
    { NoArgs,
      [NoArgs EXCEPT !.has = {"quick"}],
      [NoArgs EXCEPT !.has = {"numeric"}],
      [NoArgs EXCEPT !.has = {"number"}, !.number = 1],
      [NoArgs EXCEPT !.has = {"number", "type"}, !.number = 1],
      [NoArgs EXCEPT !.has = {"number", "type", "numeric"}, !.number = 1],
      [NoArgs EXCEPT !.has = {"number", "type", "unique"}, !.number = MaxParts],
      [NoArgs EXCEPT !.has = {"number", "Priority", "quick"}, !.number = MaxParts],
      [NoArgs EXCEPT !.has = {"type"}] }

\* show reads the image and prints, once the commands that write have run
Show ==
    \E args \in ShowArgs :
        /\ steps = MaxSteps
        /\ last.op # "show"
        /\ image' = ShowExecute(image, args).image
        /\ gpt' = ShowExecute(image, args).gpt
        /\ last' = [NoLast EXCEPT !.op = "show",
                                  !.res = ShowExecute(image, args).res,
                                  !.trace = ShowExecute(image, args).trace,
                                  !.output = ShowExecute(image, args).output,
                                  !.number = args.number, !.args = args]
        /\ UNCHANGED steps

\* the bytes of a stored checksum of the primary header are zeroed outside
\* the commands
DamageChecksum ==
    \E field \in {"CRC32", "PartitionArrayCRC32"} :
        LET c == DEFAULT_BLOCK_SIZE \div PARTITION_ENTRY_SIZE
        IN /\ steps < MaxSteps
           /\ steps' = steps + 1
           /\ CellAt(image, c).k = "hdr"
           /\ CellAt(image, c).h[field] # ZERO_CRC
           /\ image' = [image EXCEPT !.cells[c] =
                            HeaderCell([@.h EXCEPT ![field] = ZERO_CRC])]
           /\ last' = [NoLast EXCEPT !.op = "damage"]
           /\ UNCHANGED gpt

NextTable ==
    \/ Add
    \/ Prioritize
    \/ Load
    \/ Show
    \/ DamageChecksum

TableSpec == InitTable /\ [][NextTable]_vars

(***************************************************************************)
(* The protective MBR.  Sector counts reach 2^32 and more, so a count is    *)
(* kept as two 16-bit-based digits: hi * 65536 + lo with lo < 65536.        *)
(***************************************************************************)
Wide(hi, lo) == [hi |-> hi, lo |-> lo]
WideLeq(a, b) == a.hi < b.hi \/ (a.hi = b.hi /\ a.lo <= b.lo)
WideMin(a, b) == IF WideLeq(a, b) THEN a ELSE b
\* a - 1 for a > 0
WideDec(a) == IF a.lo = 0 THEN Wide(a.hi - 1, 65535) ELSE Wide(a.hi, a.lo - 1)

\* struct.pack('<I', value): four bytes, lowest first; a value of more than
\* 32 bits is refused
PackU32Ok(value) == value.hi >= 0 /\ value.hi <= 65535
PackU32(value) ==
    <<value.lo % 256, value.lo \div 256, value.hi % 256, value.hi \div 256>>

\* the fixed CHS values and starting LBA of legacy partition 0
PMBR_PART0_CHS == <<0, 0, 2, 0, 238, 255, 255, 255, 1, 0, 0, 0>>
PMBR_MAGIC == <<29, 154>>
PMBR_SIGNATURE == <<85, 170>>

\* the boot code field holds BootCodeUnits units of bytes (106 bytes each);
\* a byte-string is a sequence of units, 0 for a unit of NUL bytes
BootCodeUnits == 4

\* struct's 's' format: the value cut or NUL-padded to the width of the field
PackBytes(value, width) ==
    [i \in 1..width |-> IF i <= Len(value) THEN value[i] ELSE 0]

ZeroPMBR ==
    [BootCode |-> PackBytes(<<>>, BootCodeUnits), BootGUID |-> ZERO_GUID,
     DiskID |-> 0, Magic |-> <<0, 0>>,
     LegacyPart0 |-> PackBytes(<<>>, 16), LegacyPart1 |-> PackBytes(<<>>, 16),
     LegacyPart2 |-> PackBytes(<<>>, 16), LegacyPart3 |-> PackBytes(<<>>, 16),
     Signature |-> <<0, 0>>]

\* the sector count of the covering entry with no cap at 32 bits
LegacySectorsNoCap(sectors) == WideDec(sectors)

\* legacy_sectors = min(0x100000000, image size // 512) - 1
LegacySectors(sectors) == WideDec(WideMin(Wide(65536, 0), sectors))

\* GPT.WriteProtectiveMBR on an image of img.sectors whole sectors and
\* img.rem more bytes whose first sector holds img.pmbr; bootcode <<>> and
\* boot_guid ZERO_GUID stand for None
WriteProtectiveMBR(img, create, bootcode, boot_guid) ==
    LET Written(pmbr) ==
            [res |-> "ok", pmbr |-> pmbr,
             image |-> [img EXCEPT !.pmbr =
                          [pmbr EXCEPT !.BootCode =
                                          PackBytes(pmbr.BootCode, BootCodeUnits)]]]
        Guid(pmbr) ==
            Written(IF boot_guid # ZERO_GUID
                    THEN [pmbr EXCEPT !.BootGUID = boot_guid] ELSE pmbr)
        Code(pmbr) ==
            Guid(IF bootcode # <<>>
                 THEN [pmbr EXCEPT !.BootCode =
                          IF Len(bootcode) > Len(pmbr.BootCode)
                          THEN SubSeq(bootcode, 1, Len(pmbr.BootCode))
                          ELSE bootcode]
                 ELSE pmbr)
        Created(pmbr, legacy_sectors) ==
            IF ~PackU32Ok(legacy_sectors)
            THEN [res |-> "struct.error", pmbr |-> pmbr, image |-> img]
            ELSE Code([pmbr EXCEPT
                         !.BootGUID = TYPE_GUID_UNUSED, !.DiskID = 0,
                         !.Magic = PMBR_MAGIC,
                         !.LegacyPart0 = PMBR_PART0_CHS \o PackU32(legacy_sectors),
                         !.LegacyPart1 = PackBytes(<<>>, 16),
                         !.LegacyPart2 = PackBytes(<<>>, 16),
                         !.LegacyPart3 = PackBytes(<<>>, 16),
                         !.Signature = PMBR_SIGNATURE])
    IN IF img.sectors = Wide(0, 0)
       THEN [res |-> "struct.error", pmbr |-> ZeroPMBR, image |-> img]
       ELSE IF create THEN Created(img.pmbr, LegacySectors(img.sectors))
       ELSE Code(img.pmbr)

\* the sizes of the image in sectors: none, one, 128, and around 2^32
PmbrImageSectors ==
    {Wide(0, 0), Wide(0, 1), Wide(0, 128), Wide(65535, 65535), Wide(65536, 0),
     Wide(65536, 1), Wide(131072, 0)}

\* the bytes of the image past its last whole sector
PmbrImageRems == {0, 100}

\* the first sector of the image: zero, or an MBR somebody wrote
PmbrContents ==
    {ZeroPMBR,
     [BootCode |-> <<11, 12, 13, 14>>, BootGUID |-> "G2", DiskID |-> 7,
      Magic |-> PMBR_MAGIC,
      LegacyPart0 |-> PackBytes(<<128, 1, 1, 0, 131>>, 16),
      LegacyPart1 |-> PackBytes(<<0, 1, 1, 0, 7>>, 16),
      LegacyPart2 |-> PackBytes(<<>>, 16), LegacyPart3 |-> PackBytes(<<9>>, 16),
      Signature |-> PMBR_SIGNATURE]}

\* the boot code arguments: none, shorter than the field, as long, longer
BootCodeArgs == {<<>>, <<21>>, <<21, 22, 23, 24>>, <<21, 22, 23, 24, 25>>}

InitPmbr ==
    /\ image \in [sectors : PmbrImageSectors, rem : PmbrImageRems,
                   pmbr : PmbrContents]
    /\ gpt = NoGPT
    /\ last = NoLast
    /\ steps = MaxSteps - 1

ApiWriteProtectiveMBR ==
    \E create \in BOOLEAN, bootcode \in BootCodeArgs,
       boot_guid \in {ZERO_GUID, "G1"} :
        /\ steps < MaxSteps
        /\ steps' = steps + 1
        /\ image' = WriteProtectiveMBR(image, create, bootcode, boot_guid).image
        /\ last' = [NoLast EXCEPT
                       !.op = "pmbr",
                       !.res = WriteProtectiveMBR(image, create, bootcode,
                                                  boot_guid).res,
                       !.flag = create,
                       !.output = <<image.sectors, image.pmbr, bootcode,
                                    boot_guid>>]
        /\ UNCHANGED gpt

NextPmbr == ApiWriteProtectiveMBR

PmbrSpec == InitPmbr /\ [][NextPmbr]_vars

(***************************************************************************)
(* Find on the block devices of a system.                                  *)
(***************************************************************************)
\* the most drives lsblk lists
MaxDrives == 2

\* the block devices: two with tables, one without a GPT, one shorter than
\* the first header
BlockDevices ==
    LET Table(adds) ==
            Prepared(CreateExecute(BlankImage(TableImageSize), FALSE, 0, 0,
                                   DiskGUIDs_First).image, adds, 1)
    IN { [name |-> "/dev/sda", digit |-> FALSE,
          image |-> Table(<<DataArgs, KernelArgs(1), KernelArgs(3)>>)],
         [name |-> "/dev/mmcblk0", digit |-> TRUE,
          image |-> Table(<<BootedKernelArgs(5), KernelArgs(2)>>)],
         [name |-> "/dev/sdb", digit |-> FALSE,
          image |-> BlankImage(TableImageSize)],
         [name |-> "/dev/sdc", digit |-> FALSE,
          image |-> BlankImage(DEFAULT_BLOCK_SIZE)] }

\* the lists of drives lsblk can print: distinct devices in any order
DriveLists ==
    UNION {{l \in [1..n -> BlockDevices] :
               \A i \in 1..n, j \in 1..n : l[i] = l[j] => i = j} :
           n \in 1..MaxDrives}

\* the argument lists of find the model runs
FindArgs ==
    { NoArgs,
      [NoArgs EXCEPT !.has = {"type_guid"},
                     !.type_guid = TYPE_GUID_CHROMEOS_KERNEL],
      [NoArgs EXCEPT !.has = {"type_guid", "numeric"},
                     !.type_guid = TYPE_GUID_CHROMEOS_KERNEL],
      [NoArgs EXCEPT !.has = {"type_guid", "single_match"},
                     !.type_guid = TYPE_GUID_LINUX_DATA],
      [NoArgs EXCEPT !.has = {"label", "single_match"}, !.label = <<75>>],
      [NoArgs EXCEPT !.has = {"unique_guid"}, !.unique_guid = RandomGUIDs[1]] }

InitFind ==
    /\ image \in {d.image : d \in BlockDevices}
    /\ gpt = NoGPT
    /\ last = NoLast
    /\ steps = 0

\* find has run once on drives with outcome out
FindRan(op, out, drives, args) ==
    /\ last.op = "none"
    /\ image' = image
    /\ gpt' = out.gpt
    /\ last' = [NoLast EXCEPT !.op = op, !.res = out.res, !.trace = out.trace,
                              !.output = out.output, !.args = args,
                              !.drives = drives]
    /\ UNCHANGED steps

\* find with no drive named
FindAll ==
    \E drives \in DriveLists, args \in FindArgs :
        FindRan("find", FindExecute(drives, FALSE, args), drives, args)

\* find on the image, named as the drive
FindDrive ==
    \E d \in BlockDevices, args \in FindArgs :
        /\ d.image = image
        /\ FindRan("find drive", FindExecute(<<d>>, TRUE, args), <<d>>, args)

NextFind ==
    \/ FindAll
    \/ FindDrive

FindSpec == InitFind /\ [][NextFind]_vars

(***************************************************************************)
(* The library calls on one GPT object, as image_tool.py and the commands  *)
(* issue them.                                                             *)
(***************************************************************************)
\* the entries Partition.Update stores
PartitionValues ==
    { ZeroPartition,
      [ZeroPartition EXCEPT !.TypeGUID = TYPE_GUID_LINUX_DATA, !.UniqueGUID = "G1",
                            !.FirstLBA = 34, !.LastLBA = 40],
      [ZeroPartition EXCEPT !.TypeGUID = TYPE_GUID_LINUX_DATA, !.UniqueGUID = "G2",
                            !.FirstLBA = 40, !.LastLBA = 45],
      [ZeroPartition EXCEPT !.TypeGUID = TYPE_GUID_LINUX_DATA, !.UniqueGUID = "G3",
                            !.FirstLBA = 41, !.LastLBA = 50, !.Names = <<75>>],
      [ZeroPartition EXCEPT !.TypeGUID = TYPE_GUID_LINUX_DATA, !.UniqueGUID = "G1",
                            !.FirstLBA = 20, !.LastLBA = 30],
      [ZeroPartition EXCEPT !.TypeGUID = TYPE_GUID_LINUX_DATA, !.UniqueGUID = "G2",
                            !.FirstLBA = 60, !.LastLBA = 100] }

\* the size of the image the object is created for
ApiImageSizes == {65536}

\* the reserved_blocks arguments of ExpandPartition
ReservedBlocks == {0, 1, 60}

\* the new_size arguments of Resize: a shrink below the table, a shrink, the
\* size the object was created for, and a size that is no multiple of a block
ResizeSizes == {20480, 40960, 65536, 65800}

\* an image whose primary header is marked IGNOREME: create, then legacy -p
IgnoredImage(size) ==
    LegacyExecute(CreateExecute(BlankImage(size), FALSE, 0, 0, DiskGUIDs_First).image,
                  FALSE, TRUE).image

\* the object is created for a blank image, or loaded from the backup copy
ApiStarts ==
    {[image |-> BlankImage(size),
      gpt |-> GPTCreate(size, DEFAULT_BLOCK_SIZE, 0, DiskGUIDs_First)] :
        size \in ApiImageSizes}
    \cup {[image |-> IgnoredImage(size),
           gpt |-> LoadFromFile(IgnoredImage(size)).gpt] : size \in ApiImageSizes}

InitApi ==
    /\ \E start \in ApiStarts : image = start.image /\ gpt = start.gpt
    /\ last = NoLast
    /\ steps = 0

\* a call has changed the object
Called(op, res, new_gpt, number) ==
    /\ steps < MaxSteps
    /\ steps' = steps + 1
    /\ gpt' = new_gpt
    /\ last' = [NoLast EXCEPT !.op = op, !.res = res, !.number = number]
    /\ UNCHANGED image

\* gpt.GetPartition(number).Update(...)
ApiUpdate ==
    \E number \in 1..MaxParts, value \in PartitionValues :
        /\ gpt.partitions[number] # value
        /\ Called("Update", "ok", [gpt EXCEPT !.partitions[number] = value], number)

ApiUpdateChecksum ==
    Called("UpdateChecksum", UpdateChecksumResult(gpt),
           IF UpdateChecksumResult(gpt) = "ok" THEN UpdateChecksum(gpt) ELSE gpt, 0)

ApiCheckIntegrity ==
    /\ last.op # "CheckIntegrity"
    /\ last' = [NoLast EXCEPT !.op = "CheckIntegrity", !.res = CheckIntegrity(gpt),
                              !.flag = (last.op = "UpdateChecksum")]
    /\ UNCHANGED <<image, gpt, steps>>

ApiExpandPartition ==
    \E number \in 0..MaxParts, reserved_blocks \in ReservedBlocks :
        /\ steps < MaxSteps
        /\ steps' = steps + 1
        /\ gpt' = ExpandPartition(gpt, number, reserved_blocks).gpt
        /\ last' = [NoLast EXCEPT
                      !.op = "ExpandPartition",
                      !.res = ExpandPartition(gpt, number, reserved_blocks).res,
                      !.number = number,
                      !.reserved_blocks = reserved_blocks,
                      !.old_blocks =
                          ExpandPartition(gpt, number, reserved_blocks).old_blocks,
                      !.new_blocks =
                          ExpandPartition(gpt, number, reserved_blocks).new_blocks]
        /\ UNCHANGED image

ApiResize ==
    \E new_size \in ResizeSizes, check_overlap \in BOOLEAN :
        /\ steps < MaxSteps
        /\ steps' = steps + 1
        /\ gpt' = Resize(gpt, new_size, check_overlap).gpt
        /\ last' = [NoLast EXCEPT !.op = "Resize",
                                  !.res = Resize(gpt, new_size, check_overlap).res,
                                  !.number = new_size, !.flag = check_overlap,
                                  !.old_size = GetSize(gpt)]
        /\ UNCHANGED image

ApiWriteToFile ==
    /\ steps < MaxSteps
    /\ steps' = steps + 1
    /\ image' = WriteToFile(gpt, image).image
    /\ gpt' = WriteToFile(gpt, image).gpt
    /\ last' = [NoLast EXCEPT !.op = "WriteToFile",
                              !.res = WriteToFile(gpt, image).res,
                              !.trace = WriteToFile(gpt, image).trace]

NextApi ==
    \/ ApiUpdate
    \/ ApiUpdateChecksum
    \/ ApiCheckIntegrity
    \/ ApiExpandPartition
    \/ ApiResize
    \/ ApiWriteToFile

ApiSpec == InitApi /\ [][NextApi]_vars

(***************************************************************************)
(* Growing and shrinking an image, as ExpandPartition and ShrinkPartition  *)
(* of image_tool.py do: truncate the file, Resize the table, expand the    *)
(* last partition, write the table.                                        *)
(***************************************************************************)
\* truncate -s size image
Truncate(img, size) ==
    [size |-> size,
     cells |-> [c \in {x \in DOMAIN img.cells : (x + 1) * PARTITION_ENTRY_SIZE <= size}
                    |-> img.cells[c]]]

\* the new sizes: a shrink, the size the table was created for, a growth
GrowSizes == {40960, 65536, 81920}

\* the first partition of a table: none, or one inside the usable region
GrowPartitions ==
    {ZeroPartition,
     [ZeroPartition EXCEPT !.TypeGUID = TYPE_GUID_LINUX_DATA, !.UniqueGUID = "G3",
                           !.FirstLBA = 41, !.LastLBA = 50, !.Names = <<75>>]}

\* the entries `add -t data -b 130 -s -35`, `add -t data -b 129 -s -1` and
\* `add -t data -b 41 -s 87` store, each accepted by CheckIntegrity
NegativeSizePartitions ==
    <<[ZeroPartition EXCEPT !.TypeGUID = TYPE_GUID_LINUX_DATA, !.UniqueGUID = "G1",
                            !.FirstLBA = 130, !.LastLBA = 94],
      [ZeroPartition EXCEPT !.TypeGUID = TYPE_GUID_LINUX_DATA, !.UniqueGUID = "G2",
                            !.FirstLBA = 129, !.LastLBA = 127],
      [ZeroPartition EXCEPT !.TypeGUID = TYPE_GUID_LINUX_DATA, !.UniqueGUID = "G3",
                            !.FirstLBA = 41, !.LastLBA = 127]>>

\* the tables Create makes for the image, with the partitions stored in them
GrowStarts ==
    {[image |-> BlankImage(size),
      gpt |-> [GPTCreate(size, DEFAULT_BLOCK_SIZE, pad_blocks, DiskGUIDs_First)
                  EXCEPT !.partitions[1] = p]] :
        size \in ApiImageSizes, pad_blocks \in PadBlocks, p \in GrowPartitions}
    \cup {[image |-> BlankImage(size),
           gpt |-> [GPTCreate(size, DEFAULT_BLOCK_SIZE, 0, DiskGUIDs_First)
                       EXCEPT !.partitions[1] = NegativeSizePartitions[1],
                              !.partitions[2] = NegativeSizePartitions[2],
                              !.partitions[3] = NegativeSizePartitions[3]]] :
            size \in ApiImageSizes}

InitGrow ==
    /\ \E start \in GrowStarts : image = start.image /\ gpt = start.gpt
    /\ last = NoLast
    /\ steps = 0

\* Shell(['truncate', '-s', str(new_size), image]); gpt.Resize(new_size), or
\* gpt.Resize(new_size, check_overlap=False) when shrinking
GrowResize ==
    \E new_size \in GrowSizes, check_overlap \in BOOLEAN :
        /\ steps < MaxSteps
        /\ steps' = steps + 1
        /\ image' = Truncate(image, new_size)
        /\ gpt' = Resize(gpt, new_size, check_overlap).gpt
        /\ last' = [NoLast EXCEPT !.op = "Resize",
                                  !.res = Resize(gpt, new_size, check_overlap).res,
                                  !.number = new_size, !.flag = check_overlap,
                                  !.old_size = GetSize(gpt)]

NextGrow ==
    \/ GrowResize
    \/ ApiUpdate
    \/ ApiExpandPartition
    \/ ApiWriteToFile

GrowSpec == InitGrow /\ [][NextGrow]_vars

(***************************************************************************)
(* Properties.                                                             *)
(***************************************************************************)
MutatingCommands == {"create", "add", "expand", "repair", "prioritize", "legacy"}

WriteEvents ==
    {"WriteData GPT Header", "WriteData GPT Partitions",
     "WriteData Backup Partitions", "WriteData Backup Header"}

\* the numbers of the allocated partitions, and the blocks one covers
Allocated(g) == {i \in 1..Len(g.partitions) : ~IsUnused(g.partitions[i])}
LBASet(p) == p.FirstLBA..p.LastLBA

ValidSignature(img, offset) ==
    /\ offset >= 0
    /\ offset + HEADER_SIZE <= img.size
    /\ ReadHeader(img, offset).Signature \in SeqRange(SIGNATURES)

\* the byte offset of the header location an event of LoadFromFile names
EventOffset(img, e) == IF e.b = 0 THEN e.a ELSE img.size - e.a

\* the partition array of n entries the image holds from a block on
TableOnImage(img, block_size, lba, n) ==
    [j \in 1..n |-> CellAt(img, (block_size * lba) \div PARTITION_ENTRY_SIZE + j - 1)]

\* C1: a mutating command (create, add, expand, repair, prioritize, legacy)
\* that terminates with an error leaves the image exactly as it was before
\* the command started.
C1_FailedCommandLeavesImage ==
    [][(last'.op \in MutatingCommands /\ last'.res # "ok") => image' = image]_vars

\* C2: in WriteToFile, UpdateChecksum and then CheckIntegrity come before
\* every write, and when CheckIntegrity fails the image is not changed at all.
C2_ChecksBeforeWrites ==
    [][last'.op = "WriteToFile" =>
        /\ \A j \in 1..Len(last'.trace) :
              last'.trace[j].ev \in WriteEvents =>
                  /\ j > 2
                  /\ last'.trace[1].ev = "UpdateChecksum"
                  /\ last'.trace[2].ev = "CheckIntegrity"
        /\ (image' # image) =>
              /\ UpdateChecksumResult(gpt) = "ok"
              /\ CheckIntegrity(UpdateChecksum(gpt)) = "ok"
              /\ \E j \in 1..Len(last'.trace) : last'.trace[j].ev \in WriteEvents
        /\ (last'.res # "ok" /\ Len(last'.trace) <= 2) => image' = image]_vars

\* WriteToFile has stopped at a failing CheckIntegrity of a table with
\* allocated partitions
C2_Witness ==
    /\ last.op = "WriteToFile"
    /\ last.res = "GPTError"
    /\ Len(last.trace) = 2
    /\ Allocated(gpt) # {}
    /\ image.cells = <<>>

LayoutPasses(g) ==
    /\ CheckLayout(g) = "ok"
    /\ ~OverlapInSorted(g.partitions, SortByFirstLBA(g.partitions, GetUsedPartitions(g)))
    /\ CheckFirstLast(g, SortByFirstLBA(g.partitions, GetUsedPartitions(g))) = "ok"
    /\ CheckUniqueGUIDs(g) = "ok"

\* the stored checksums were computed, and the packed partition entries are
\* no longer the ones they were computed over
EntriesChangedSinceChecksum(g) ==
    /\ g.header.PartitionArrayCRC32 # ZERO_CRC
    /\ PartitionsPackResult(g.partitions) = "ok"
    /\ g.header.PartitionArrayCRC32 # Crc32(PartitionsBlob(g.partitions))

\* C4: CheckIntegrity right after UpdateChecksum succeeds on every table whose
\* layout passes; and once the packed content of an entry has been changed
\* with the stored checksums left alone, CheckIntegrity fails with the
\* integrity error (GPTError).
C4_ChecksumsDetectChange ==
    last.op = "CheckIntegrity" =>
        /\ (last.flag /\ LayoutPasses(gpt)) => last.res = "ok"
        /\ EntriesChangedSinceChecksum(gpt) => last.res = "GPTError"

\* the backup header on the image mirrors the primary header `h`
MirroredBackup(img, g, h) ==
    LET Mirrors(b) ==
            /\ b = [h EXCEPT !.CurrentLBA = h.BackupLBA,
                             !.BackupLBA = h.CurrentLBA,
                             !.PartitionEntriesStartingLBA =
                                 h.BackupLBA - GetPartitionTableBlocks(g, h),
                             !.CRC32 = b.CRC32]
            /\ b.CRC32 = HeaderUpdateChecksum(b).CRC32
            /\ TableOnImage(img, g.block_size, b.PartitionEntriesStartingLBA,
                            h.PartitionEntriesNumber)
                 = TableOnImage(img, g.block_size, h.PartitionEntriesStartingLBA,
                                h.PartitionEntriesNumber)
    IN /\ ReadHeader(img, g.block_size * h.CurrentLBA) = h
       /\ Mirrors(ReadHeader(img, g.block_size * h.BackupLBA))

\* the cells of the header and of the table of the copy `g` was loaded from
OwnCells(g) ==
    {(g.block_size * g.header.CurrentLBA) \div PARTITION_ENTRY_SIZE}
      \cup {(g.block_size * g.header.PartitionEntriesStartingLBA)
                \div PARTITION_ENTRY_SIZE + j - 1 :
            j \in 1..g.header.PartitionEntriesNumber}

\* C5: after a successful write by an instance that is not a backup copy the
\* image holds the primary header and a backup header that mirrors it (LBAs
\* swapped, table right before the backup header, own valid CRC32) and two
\* identical partition arrays; a backup copy writes only its own header and
\* table.
C5_MirroredCopies ==
    [][(/\ last'.op \in MutatingCommands
        /\ last'.res = "ok"
        /\ \E j \in 1..Len(last'.trace) : last'.trace[j].ev \in WriteEvents) =>
          IF gpt'.is_secondary
          THEN \A c \in (DOMAIN image.cells \cup DOMAIN image'.cells) \ OwnCells(gpt') :
                  CellAt(image', c) = CellAt(image, c)
          ELSE MirroredBackup(image', gpt', gpt'.header)]_vars

C8_PrimaryIgnore ==
    [][(last'.op = "legacy" /\ last'.flag /\ LoadFromFile(image).res = "ok") =>
          IF LoadFromFile(image).gpt.is_secondary
          THEN last'.res # "ok" /\ image' = image
          ELSE /\ last'.res = "ok"
               /\ ReadHeader(image', LoadFromFile(image).gpt.block_size).Signature
                    = SIGNATURE_IGNORE
               /\ LoadFromFile(image').res = "ok"
               /\ LoadFromFile(image').gpt.is_secondary
               /\ LoadFromFile(image').gpt.partitions
                    = LoadFromFile(image).gpt.partitions]_vars

\* C9: ExpandPartition(n, reserved_blocks) fails and changes nothing when
\* partition n is unused or another allocated partition has a greater
\* LastLBA; otherwise it succeeds and sets only partition n's LastLBA, to
\* LastUsableLBA - reserved_blocks.  For a valid n it succeeds exactly when
\* IsLastPartition(n).
C9_ExpandOnlyLast ==
    [][(last'.op = "ExpandPartition" /\ ValidNumber(gpt, last'.number)) =>
          /\ IF \/ IsUnused(gpt.partitions[last'.number])
                \/ \E i \in Allocated(gpt) :
                      gpt.partitions[i].LastLBA > gpt.partitions[last'.number].LastLBA
             THEN last'.res # "ok" /\ gpt' = gpt
             ELSE /\ last'.res = "ok"
                  /\ gpt' = [gpt EXCEPT !.partitions[last'.number].LastLBA =
                               gpt.header.LastUsableLBA - last'.reserved_blocks]
          /\ (last'.res = "ok") = IsLastPartition(gpt, last'.number)]_vars

\* ExpandPartition has succeeded on the last of two allocated partitions
C9_Witness ==
    /\ last.op = "ExpandPartition"
    /\ last.res = "ok"
    /\ Cardinality(Allocated(gpt)) >= 2
    /\ last.new_blocks > last.old_blocks

\* C10 as stated: whenever the partition's LastLBA before the call is at most
\* LastUsableLBA, new_blocks >= old_blocks, for every reserved_blocks >= 0.
C10_NeverReduces ==
    [][(/\ last'.op = "ExpandPartition"
        /\ last'.res = "ok"
        /\ gpt.partitions[last'.number].LastLBA <= gpt.header.LastUsableLBA) =>
          last'.new_blocks >= last'.old_blocks]_vars

\* C10 amended: whenever the partition's LastLBA before the call is at most
\* LastUsableLBA - reserved_blocks, new_blocks >= old_blocks and both are the
\* partition's block counts before and after.
C10_NeverReducesBelowReserve ==
    [][(/\ last'.op = "ExpandPartition"
        /\ last'.res = "ok"
        /\ gpt.partitions[last'.number].LastLBA
              <= gpt.header.LastUsableLBA - last'.reserved_blocks) =>
          /\ last'.old_blocks = Blocks(gpt.partitions[last'.number])
          /\ last'.new_blocks = Blocks(gpt'.partitions[last'.number])
          /\ last'.new_blocks >= last'.old_blocks]_vars

\* ExpandPartition has grown the last partition up to the reserved blocks
C10_Witness ==
    /\ last.op = "ExpandPartition"
    /\ last.res = "ok"
    /\ last.reserved_blocks > 0
    /\ last.new_blocks > last.old_blocks
    /\ gpt.partitions[last.number].LastLBA
          = gpt.header.LastUsableLBA - last.reserved_blocks

\* the LastUsableLBA Resize computes for new_size
ResizedLastUsableLBA(g, new_size) ==
    (new_size \div g.block_size) - 1 - g.header.FirstUsableLBA

\* the failure condition of Resize the contract names
ResizeRejects(g, new_size, check_overlap) ==
    \/ new_size % g.block_size # 0
    \/ /\ check_overlap
       /\ ResizedLastUsableLBA(g, new_size) < g.header.LastUsableLBA
       /\ ResizedLastUsableLBA(g, new_size) < GetMaxUsedLBA(g)

C12_ResizeTwice ==
    [][(/\ last.op = "Resize" /\ last.res = "ok"
        /\ last'.op = "Resize" /\ last'.number = last.number) =>
          /\ last'.res = "ok"
          /\ gpt'.header = gpt.header]_vars

\* a table loaded from the backup copy was resized to a new size and then
\* resized to it again
C12_Witness ==
    /\ last.op = "Resize"
    /\ last.res = "ok"
    /\ last.old_size = last.number
    /\ gpt.is_secondary
    /\ gpt.header.BackupLBA = (last.number \div gpt.block_size) - 1
    /\ gpt.header.BackupLBA # 1

\* the header Create(size, block_size, pad_blocks) is to give back after
\* WriteToFile and LoadFromFile, up to the checksum fields
HeaderAsCreated(h, size, block_size, pad_blocks) ==
    /\ h.CurrentLBA = 1
    /\ h.PartitionEntriesStartingLBA = 2 + pad_blocks
    /\ h.FirstUsableLBA =
          2 + pad_blocks
            + CeilDiv(DEFAULT_PARTITION_ENTRIES * PARTITION_ENTRY_SIZE, block_size)
    /\ h.BackupLBA = (size \div block_size) - 1

\* C13 as stated: Create, WriteToFile and then LoadFromFile give a table with
\* every entry unused and CurrentLBA = 1, PartitionEntriesStartingLBA =
\* 2 + pad_blocks, FirstUsableLBA = that plus the blocks of the table, and
\* BackupLBA = size / block_size - 1 (34 and 99 for 100 blocks of 512 bytes).
C13_CreateWriteLoad ==
    [][(last.op = "create" /\ last.res = "ok" /\ last'.op = "load") =>
          /\ last'.res = "ok"
          /\ \A i \in 1..Len(gpt'.partitions) : IsUnused(gpt'.partitions[i])
          /\ HeaderAsCreated(gpt'.header, image.size, gpt.block_size, last.number)]_vars

\* C13 amended: the same, for a block size LoadFromFile tries (512 or 4096)
\* and an image that holds no valid signature at a location LoadFromFile
\* examines before the new primary header (for block size 4096: byte 512 and
\* the last 512 bytes).
C13_CreateWriteLoadNoStaleHeader ==
    [][(/\ last.op = "create" /\ last.res = "ok" /\ last'.op = "load"
        /\ gpt.block_size \in {DEFAULT_BLOCK_SIZE, BLOCK_SIZE_4K}
        /\ gpt.block_size # DEFAULT_BLOCK_SIZE =>
              /\ ~ValidSignature(image, DEFAULT_BLOCK_SIZE)
              /\ ~ValidSignature(image, image.size - DEFAULT_BLOCK_SIZE)) =>
          /\ last'.res = "ok"
          /\ gpt'.block_size = gpt.block_size
          /\ ~gpt'.is_secondary
          /\ Len(gpt'.partitions) = DEFAULT_PARTITION_ENTRIES
          /\ \A i \in 1..Len(gpt'.partitions) : gpt'.partitions[i] = ZeroPartition
          /\ gpt'.header = gpt.header
          /\ HeaderAsCreated(gpt'.header, image.size, gpt.block_size, last.number)
          /\ (image.size = 100 * DEFAULT_BLOCK_SIZE /\ last.number = 0
                /\ gpt.block_size = DEFAULT_BLOCK_SIZE) =>
                /\ gpt'.header.FirstUsableLBA = 34
                /\ gpt'.header.BackupLBA = 99]_vars

\* a table created with block size 4096 and 7 pad blocks was loaded back
C13_Witness ==
    /\ last.op = "load"
    /\ last.flag
    /\ last.res = "ok"
    /\ last.number = 7
    /\ gpt.block_size = BLOCK_SIZE_4K
    /\ gpt.header.PartitionEntriesStartingLBA = 9
    /\ gpt.header.FirstUsableLBA = 13

\* the target is too small for the primary header and table plus the mirrored
\* backup table and header
TooSmall(size, block_size, pad_blocks) ==
    LET Small(h) ==
            \/ size \div block_size < 2 * h.FirstUsableLBA - 1
            \/ h.LastUsableLBA < h.FirstUsableLBA - 1
    IN Small(HeaderCreate(size, block_size, pad_blocks,
                          DEFAULT_PARTITION_ENTRIES, ZERO_GUID))

AddNumber(g, args) ==
    IF "number" \in args.has THEN args.number
    ELSE CHOOSE i \in 1..Len(g.partitions) :
            /\ IsUnused(g.partitions[i])
            /\ \A j \in 1..(i - 1) : ~IsUnused(g.partitions[j])

\* the highest LastLBA of the allocated partitions, FirstUsableLBA - 1 on an
\* empty table
HighestUsedLBA(g) ==
    IF Allocated(g) = {} THEN g.header.FirstUsableLBA - 1
    ELSE CHOOSE m \in {g.partitions[i].LastLBA : i \in Allocated(g)} :
            \A i \in Allocated(g) : g.partitions[i].LastLBA <= m

\* the type and the range Add is to store in entry n of the table g
AddIntended(g, args, n) ==
    LET Range(type, first, blocks) ==
            [TypeGUID |-> GetArg(args, "type_guid", type),
             FirstLBA |-> GetArg(args, "begin", first),
             LastLBA |-> GetArg(args, "begin", first) - 1
                            + GetArg(args, "sectors", blocks)]
    IN IF IsUnused(g.partitions[n])
       THEN Range(TYPE_GUID_LINUX_DATA, HighestUsedLBA(g) + 1,
                  g.header.LastUsableLBA - HighestUsedLBA(g))
       ELSE Range(g.partitions[n].TypeGUID, g.partitions[n].FirstLBA,
                  Blocks(g.partitions[n]))

\* the non-empty range Add is to store intersects another allocated partition
AddIntoOccupied(g, args, n) ==
    /\ AddIntended(g, args, n).TypeGUID # TYPE_GUID_UNUSED
    /\ AddIntended(g, args, n).FirstLBA <= AddIntended(g, args, n).LastLBA
    /\ \E i \in Allocated(g) \ {n} :
          LBASet(g.partitions[i]) \cap LBASet(AddIntended(g, args, n)) # {}

\* every argument of Add is one its codec accepts: attribute values within
\* their masks, a label that fits, no negative LBA
AddArgsPack(g, args, n) ==
    /\ UpdateAttrs({}, args, 1).res = "ok"
    /\ UTF16PackOk(GetArg(args, "label", <<>>))
    /\ AddIntended(g, args, n).FirstLBA >= 0
    /\ AddIntended(g, args, n).LastLBA >= 0

\* a step of add on an image that loads and has the addressed entry
AddStep(g, args) ==
    /\ LoadFromFile(image).res = "ok"
    /\ "number" \notin args.has => \E i \in 1..Len(g.partitions) : IsUnused(g.partitions[i])
    /\ ValidNumber(g, AddNumber(g, args))

\* a new partition added without begin starts one past the highest used LBA
AddPlacedAfterUsed(g, g2, args, n, res) ==
    (/\ res = "ok"
     /\ IsUnused(g.partitions[n])
     /\ "begin" \notin args.has
     /\ AddIntended(g, args, n).TypeGUID # TYPE_GUID_UNUSED) =>
        /\ g2.partitions[n].FirstLBA = HighestUsedLBA(g) + 1
        /\ Allocated(g) = {} => g2.partitions[n].FirstLBA = g.header.FirstUsableLBA

\* C15 as stated: a new partition added without begin gets FirstLBA =
\* GetMaxUsedLBA() + 1 over the allocated partitions (FirstUsableLBA on an
\* empty table), and an Add whose resulting non-empty range intersects another
\* allocated partition fails with the integrity error (GPTError) and leaves
\* the image unchanged.
C15_AddIntoOccupiedFails ==
    [][(last'.op = "add" /\ AddStep(LoadFromFile(image).gpt, last'.args)) =>
          /\ AddPlacedAfterUsed(LoadFromFile(image).gpt, gpt', last'.args,
                                AddNumber(LoadFromFile(image).gpt, last'.args),
                                last'.res)
          /\ AddIntoOccupied(LoadFromFile(image).gpt, last'.args,
                             AddNumber(LoadFromFile(image).gpt, last'.args)) =>
                /\ last'.res = "GPTError"
                /\ image' = image]_vars

\* C15 amended: the same, where the Add into occupied space fails and leaves
\* the image unchanged, with the integrity error when every argument is one
\* its codec accepts.
C15_AddIntoOccupiedFailsSomehow ==
    [][(last'.op = "add" /\ AddStep(LoadFromFile(image).gpt, last'.args)) =>
          /\ AddPlacedAfterUsed(LoadFromFile(image).gpt, gpt', last'.args,
                                AddNumber(LoadFromFile(image).gpt, last'.args),
                                last'.res)
          /\ AddIntoOccupied(LoadFromFile(image).gpt, last'.args,
                             AddNumber(LoadFromFile(image).gpt, last'.args)) =>
                /\ last'.res # "ok"
                /\ image' = image
                /\ AddArgsPack(LoadFromFile(image).gpt, last'.args,
                               AddNumber(LoadFromFile(image).gpt, last'.args)) =>
                      last'.res = "GPTError"]_vars

\* an edit that moves an allocated partition onto another one was refused
C15_Witness ==
    /\ last.op = "add"
    /\ last.res = "GPTError"
    /\ LoadFromFile(image).res = "ok"
    /\ ValidNumber(LoadFromFile(image).gpt, last.number)
    /\ ~IsUnused(LoadFromFile(image).gpt.partitions[last.number])
    /\ AddIntoOccupied(LoadFromFile(image).gpt, last.args, last.number)
    /\ AddArgsPack(LoadFromFile(image).gpt, last.args, last.number)

\* entry n is zero in the table `after`, every other entry is as in `before`,
\* and entry n counts in none of the queries
Deleted(before, after, n) ==
    /\ after.partitions[n] = ZeroPartition
    /\ \A i \in 1..Len(before.partitions) :
          i # n => after.partitions[i] = before.partitions[i]
    /\ n \notin SeqRange(GetUsedPartitions(after))
    /\ GetMaxUsedLBA(after) = HighestUsedLBA([before EXCEPT !.partitions[n] = ZeroPartition])
    /\ ~IsLastPartition(after, n)

\* C16: add with type unused on entry n succeeds whatever other arguments it
\* is given and persists entry n with every field zero; the reloaded table
\* has every other entry unchanged and does not count entry n in
\* GetUsedPartitions, GetMaxUsedLBA or IsLastPartition.
C16_DeleteZeroesEntry ==
    [][(/\ last'.op = "add"
        /\ "number" \in last'.args.has
        /\ GetArg(last'.args, "type_guid", TYPE_GUID_LINUX_DATA) = TYPE_GUID_UNUSED
        /\ LoadFromFile(image).res = "ok"
        /\ ValidNumber(LoadFromFile(image).gpt, last'.number)) =>
          /\ last'.res = "ok"
          /\ LoadFromFile(image').res = "ok"
          /\ Deleted(LoadFromFile(image).gpt, LoadFromFile(image').gpt,
                     last'.number)]_vars

\* the checksum stored in the primary header of the image is not the checksum
\* of the header
StoredChecksumWrong(img) ==
    LET cell == CellAt(img, DEFAULT_BLOCK_SIZE \div PARTITION_ENTRY_SIZE)
    IN /\ cell.k = "hdr"
       /\ cell.h.CRC32 # HeaderUpdateChecksum(cell.h).CRC32

\* show was run with arguments it accepts: format arguments only with -i
ShowArgsAccepted(args) ==
    args.has \cap SeqRange(FORMAT_ARGS) # {} => args.number # 0

\* the report of the loaded table g is complete in lines: the whole table
\* from the heading to the backup header with every allocated partition, or
\* the one requested partition
ReportComplete(g, args, lines) ==
    IF args.number # 0 THEN Len(lines) >= 1
    ELSE IF "quick" \in args.has
    THEN /\ Len(lines) = Len(GetUsedPartitions(g))
         /\ \A i \in SeqRange(GetUsedPartitions(g)) :
               \E k \in 1..Len(lines) : lines[k].part = i
    ELSE /\ Len(lines) >= 5
         /\ lines[1].kind = "heading"
         /\ lines[2].contents = "Pri GPT header"
         /\ lines[Len(lines)].contents = "Sec GPT header"
         /\ \A i \in SeqRange(GetUsedPartitions(g)) :
               \E k \in 1..Len(lines) :
                   /\ lines[k].kind = "partition"
                   /\ lines[k].part = i
                   /\ lines[k].start = g.partitions[i].FirstLBA

\* the trace ends with CheckIntegrity, after one print for every line
ChecksAfterPrinting(trace, lines) ==
    /\ Len(trace) > Len(lines)
    /\ trace[Len(trace)].ev = "CheckIntegrity"
    /\ \A k \in 1..Len(lines) :
          trace[Len(trace) - Len(lines) - 1 + k] = Event("print", k, 0)
    /\ \A k \in 1..Len(trace) :
          trace[k].ev = "CheckIntegrity" => k = Len(trace)

\* C17: on an image whose primary header has a valid signature and a wrong
\* stored checksum, LoadFromFile succeeds; show prints its complete report,
\* only then runs CheckIntegrity, and fails with the integrity error; show
\* never writes to the image.
C17_ShowChecksAfterReport ==
    [][/\ last'.op = "show" => image' = image
       /\ StoredChecksumWrong(image) /\ last'.op = "load" => last'.res = "ok"
       /\ StoredChecksumWrong(image) /\ last'.op = "show"
              /\ ShowArgsAccepted(last'.args)
          => /\ last'.res = "GPTError"
             /\ ReportComplete(gpt', last'.args, last'.output)
             /\ ChecksAfterPrinting(last'.trace, last'.output)]_vars

\* a show of the whole table of an image with a wrong stored checksum and
\* allocated partitions has failed
C17_Witness ==
    /\ last.op = "show"
    /\ last.args = NoArgs
    /\ StoredChecksumWrong(image)
    /\ last.res = "GPTError"
    /\ Len(last.output) >= 8

\* C18: show -i N with the type field flag and no other option prints one
\* line, the raw type GUID of entry N in upper case, not its alias.
C18_TypeFieldPrintsRawGUID ==
    /\ last.op = "show"
    /\ last.args.has = {"number", "type"}
    /\ last.output # <<>>
    => last.output =
         <<Line("value", "", "", "",
                GUIDStr(gpt.partitions[last.args.number].TypeGUID))>>

\* the numbers of the ChromeOS kernel partitions of the table g
KernelsOf(g) ==
    {i \in 1..Len(g.partitions) : IsChromeOSKernel(g.partitions[i])}

PriorityOf(g, i) == Priority(g.partitions[i].Attributes)

\* in g2 the partitions of top share the priority of n, which is strictly
\* greater than that of every other kernel partition
PromotedAbove(g, g2, n, top) ==
    /\ \A j \in top : PriorityOf(g2, j) = PriorityOf(g2, n)
    /\ \A j \in KernelsOf(g) \ top : PriorityOf(g2, n) > PriorityOf(g2, j)

\* prioritize -i n [-f] without -P on the table g, with result res and the
\* table g2 read back
TargetPromoted(g, g2, n, friends, res, unchanged) ==
    IF n \in KernelsOf(g)
    THEN /\ res = "ok"
         /\ PromotedAbove(g, g2, n,
                          IF friends
                          THEN {j \in KernelsOf(g) :
                                   PriorityOf(g, j) = PriorityOf(g, n)}
                          ELSE {n})
    ELSE res # "ok" /\ unchanged

\* C19: prioritize with a target N that is a kernel partition and no -P
\* completes on every table and leaves N strictly above every other kernel
\* (with friends: N and the partitions of N's old priority share the top
\* priority, strictly above the rest); a target that is not a kernel
\* partition fails and the image is not written.
C19_TargetPromoted ==
    [][(/\ last'.op = "prioritize"
        /\ last'.number # 0
        /\ last'.args.priority = 0
        /\ LoadFromFile(image).res = "ok") =>
          TargetPromoted(LoadFromFile(image).gpt, LoadFromFile(image').gpt,
                         last'.number, last'.flag, last'.res,
                         image' = image)]_vars

\* the kernel partitions of g with a non-zero priority
ActiveKernels(g) == {i \in KernelsOf(g) : PriorityOf(g, i) # 0}

\* the index, from 0, of the priority group of partition i among the
\* non-zero groups of g in descending order
GroupIndex(g, i) ==
    Cardinality({p \in {PriorityOf(g, j) : j \in ActiveKernels(g)} :
                    p > PriorityOf(g, i)})

\* highest = min(requested priority or number of groups, 15)
HighestFor(g, requested) ==
    Min2(IF requested # 0 THEN requested
         ELSE Cardinality({PriorityOf(g, j) : j \in ActiveKernels(g)}), 15)

\* the table g2 is the table g renumbered: group i gets max(1, highest - i),
\* with the stated consequences
Renumbered(g, g2, requested, no_options) ==
    /\ \A i \in ActiveKernels(g) :
          /\ PriorityOf(g2, i) =
                Max2(1, HighestFor(g, requested) - GroupIndex(g, i))
          /\ PriorityOf(g2, i) \in 1..15
    /\ \A a \in ActiveKernels(g), b \in ActiveKernels(g) :
          /\ PriorityOf(g, a) = PriorityOf(g, b)
                => PriorityOf(g2, a) = PriorityOf(g2, b)
          /\ PriorityOf(g, a) > PriorityOf(g, b)
                => PriorityOf(g2, a) >= PriorityOf(g2, b)
    /\ no_options =>
          \A a \in ActiveKernels(g) :
              (\A b \in ActiveKernels(g) : PriorityOf(g, a) <= PriorityOf(g, b))
                 => PriorityOf(g2, a) = 1

\* C20 as stated: every prioritize that completes gives the i-th non-zero
\* priority group, in descending order of old priority, the priority
\* max(1, highest - i); every active kernel ends in 1..15, equal old
\* priorities end equal, the order is kept, and with no options the lowest
\* active group ends at 1.
C20_Renumbers ==
    [][(/\ last'.op = "prioritize"
        /\ last'.res = "ok") =>
          Renumbered(LoadFromFile(image).gpt, gpt', last'.args.priority,
                     last'.number = 0 /\ last'.args.priority = 0)]_vars

\* C20 amended: the same for a prioritize without a target partition.
C20_RenumbersWithoutTarget ==
    [][(/\ last'.op = "prioritize"
        /\ last'.number = 0
        /\ last'.res = "ok") =>
          Renumbered(LoadFromFile(image).gpt, gpt', last'.args.priority,
                     last'.args.priority = 0)]_vars

\* a prioritize without options has renumbered kernels of priorities 15, 3
\* and 0 to 2, 1 and 0
C20_Witness ==
    /\ last.op = "prioritize"
    /\ last.res = "ok"
    /\ last.number = 0
    /\ last.args.priority = 0
    /\ {PriorityOf(gpt, i) : i \in KernelsOf(gpt)} = {0, 1, 2}

\* the attribute bits other than the priority (48-51) and tries (52-55)
\* fields
OtherBits(raw) == {b \in raw : b < 48 \/ b > 55}

\* the kernel partitions a prioritize with target n promotes
PromotedSet(g, n, friends) ==
    IF n \notin KernelsOf(g) THEN {}
    ELSE IF friends
    THEN {j \in KernelsOf(g) : PriorityOf(g, j) = PriorityOf(g, n)}
    ELSE {n}

\* between the tables g and g2 only priority and tries fields of kernel
\* partitions differ, and none of a kernel of priority 0 outside promoted
OnlyPriorityAndTries(g, g2, promoted) ==
    /\ Len(g2.partitions) = Len(g.partitions)
    /\ \A i \in 1..Len(g.partitions) :
          /\ g2.partitions[i].FirstLBA = g.partitions[i].FirstLBA
          /\ g2.partitions[i].LastLBA = g.partitions[i].LastLBA
          /\ g2.partitions[i].TypeGUID = g.partitions[i].TypeGUID
          /\ g2.partitions[i].UniqueGUID = g.partitions[i].UniqueGUID
          /\ g2.partitions[i].Names = g.partitions[i].Names
          /\ OtherBits(g2.partitions[i].Attributes)
                = OtherBits(g.partitions[i].Attributes)
          /\ Successful(g2.partitions[i].Attributes)
                = Successful(g.partitions[i].Attributes)
          /\ LegacyBoot(g2.partitions[i].Attributes)
                = LegacyBoot(g.partitions[i].Attributes)
          /\ Required(g2.partitions[i].Attributes)
                = Required(g.partitions[i].Attributes)
          /\ (\/ i \notin KernelsOf(g)
              \/ (PriorityOf(g, i) = 0 /\ i \notin promoted))
                => g2.partitions[i] = g.partitions[i]

\* C21: prioritize changes nothing but the priority and tries fields of
\* kernel partitions: non-kernel partitions, kernels of priority 0 that are
\* not promoted, and in every partition the other attribute bits, the LBAs,
\* the GUIDs and the name read the same from the image before and after.
C21_OnlyPriorityAndTries ==
    [][(last'.op = "prioritize" /\ LoadFromFile(image).res = "ok") =>
          /\ LoadFromFile(image').res = "ok"
          /\ OnlyPriorityAndTries(LoadFromFile(image).gpt,
                                  LoadFromFile(image').gpt,
                                  PromotedSet(LoadFromFile(image).gpt,
                                              last'.number, last'.flag))]_vars

\* a prioritize has renumbered a named kernel with every flag set next to
\* another kernel
C21_Witness ==
    /\ last.op = "prioritize"
    /\ last.res = "ok"
    /\ \E i \in KernelsOf(gpt) :
          /\ gpt.partitions[i].Names # <<>>
          /\ Successful(gpt.partitions[i].Attributes) = 1
          /\ Required(gpt.partitions[i].Attributes) = 1
          /\ PriorityOf(gpt, i) = 2
    /\ \E i \in KernelsOf(gpt) : PriorityOf(gpt, i) = 1

\* partition i of g enters the active set in g2 with no tries left and
\* without having booted
EntersActiveSet(g, g2, i) ==
    /\ i \in KernelsOf(g)
    /\ PriorityOf(g, i) = 0
    /\ PriorityOf(g2, i) # 0
    /\ Tries(g.partitions[i].Attributes) = 0
    /\ Successful(g.partitions[i].Attributes) = 0

TriesResetOnEntering(g, g2) ==
    \A i \in 1..Len(g.partitions) :
        Tries(g2.partitions[i].Attributes) =
            IF EntersActiveSet(g, g2, i) THEN 15
            ELSE Tries(g.partitions[i].Attributes)

\* C22: prioritize sets tries to 15 exactly for the kernel partitions whose
\* priority goes from 0 to non-zero with tries 0 and successful 0; the tries
\* of every other partition, active kernels whose priority changes included,
\* stay as they were.
C22_TriesResetOnlyOnEntering ==
    [][(/\ last'.op = "prioritize"
        /\ last'.res = "ok"
        /\ LoadFromFile(image).res = "ok") =>
          TriesResetOnEntering(LoadFromFile(image).gpt,
                               LoadFromFile(image').gpt)]_vars

\* the drives of a list whose table LoadFromFile decodes
Decodable(drives) ==
    {k \in 1..Len(drives) : LoadFromFile(drives[k].image).res = "ok"}

\* the lines of the matches of the decodable drives from the k-th on
RECURSIVE ExpectedLines(_, _, _)
ExpectedLines(drives, k, args) ==
    IF k > Len(drives) THEN <<>>
    ELSE (IF k \in Decodable(drives)
          THEN [j \in 1..Len(FindMatches(LoadFromFile(drives[k].image).gpt,
                                          args)) |->
                  FoundLine(drives[k],
                            FindMatches(LoadFromFile(drives[k].image).gpt,
                                        args)[j],
                            "numeric" \in args.has)]
          ELSE <<>>)
         \o ExpectedLines(drives, k + 1, args)

\* a scan that skipped the drives it could not decode: it ran to the end,
\* reported the matches of each decodable drive once and examined no table
\* twice
SkippedUndecodable(drives, args, res, output, trace) ==
    /\ res \in {"ok", "exit 1"}
    /\ output = ExpectedLines(drives, 1, args)
    /\ res = "ok" <=> (/\ Len(output) >= 1
                       /\ "single_match" \in args.has => Len(output) = 1)
    /\ \A i \in 1..Len(trace), j \in 1..Len(trace) :
          trace[i].a = trace[j].a => i = j
    /\ {trace[i].a : i \in 1..Len(trace)} = Decodable(drives)

\* C23: find without a named drive skips a drive whose GPT cannot be decoded,
\* wherever it stands in the list: the scan completes, reports and counts
\* the matches of every other drive once, and examines no table twice; find
\* on a named drive that cannot be decoded fails with the decode failure.
C23_FindSkipsUndecodable ==
    /\ (last.op = "find" /\ last.args # NoArgs) =>
          SkippedUndecodable(last.drives, last.args, last.res, last.output,
                             last.trace)
    /\ (last.op = "find drive" /\ last.args # NoArgs
           /\ Decodable(last.drives) = {}) =>
          last.res = LoadFromFile(last.drives[1].image).res

\* every entry of g that Pack accepts unpacks to itself
EntriesRoundTrip(g) ==
    \A i \in 1..Len(g.partitions) :
        PartitionPackResult(g.partitions[i]) = "ok" =>
            PartitionUnpack(PartitionPack(g.partitions[i])) = g.partitions[i]

\* LoadFromFile reads from img the header and the entries of g
TableRoundTrip(g, img) ==
    /\ LoadFromFile(img).res = "ok"
    /\ LoadFromFile(img).gpt.header = g.header
    /\ LoadFromFile(img).gpt.partitions = g.partitions

\* C24: an entry that Pack accepts unpacks field for field to itself, and the
\* table a command has written with WriteToFile is read back by LoadFromFile
\* with the same header fields and the same partition entries.
C24_RoundTrip ==
    (last.op \in MutatingCommands /\ last.res = "ok") =>
        /\ EntriesRoundTrip(gpt)
        /\ TableRoundTrip(gpt, image)

\* the last four bytes of the covering entry are the 32-bit count w
CoveringCount(pmbr, w) ==
    /\ PackU32Ok(w)
    /\ pmbr.LegacyPart0 = PMBR_PART0_CHS \o PackU32(w)

\* the fields other than boot code and boot GUID are those of old
OtherFieldsKept(pmbr, old) ==
    /\ pmbr.DiskID = old.DiskID
    /\ pmbr.Magic = old.Magic
    /\ pmbr.Signature = old.Signature
    /\ pmbr.LegacyPart0 = old.LegacyPart0
    /\ pmbr.LegacyPart1 = old.LegacyPart1
    /\ pmbr.LegacyPart2 = old.LegacyPart2
    /\ pmbr.LegacyPart3 = old.LegacyPart3

\* the boot code and boot GUID are the supplied ones, the code cut to the
\* field, or those of old where none was supplied
SuppliedFields(pmbr, old, bootcode, boot_guid, create) ==
    /\ pmbr.BootCode =
          IF bootcode = <<>> THEN old.BootCode
          ELSE PackBytes(bootcode, BootCodeUnits)
    /\ pmbr.BootGUID =
          IF boot_guid # ZERO_GUID THEN boot_guid
          ELSE IF create THEN TYPE_GUID_UNUSED ELSE old.BootGUID

\* C25 as stated: with create, the count of the covering entry is
\* min(2^32 - 1, sectors of the image) - 1, for every size of at least one
\* sector, and fits 32 bits; without create every field but the supplied
\* boot code and boot GUID is kept.
C25_CoveringCount ==
    (last.op = "pmbr" /\ last.output[1] # Wide(0, 0)) =>
        /\ last.res = "ok"
        /\ last.flag =>
              CoveringCount(image.pmbr,
                            WideDec(WideMin(Wide(65535, 65535), last.output[1])))
        /\ ~last.flag => OtherFieldsKept(image.pmbr, last.output[2])
        /\ SuppliedFields(image.pmbr, last.output[2], last.output[3],
                          last.output[4], last.flag)

\* C25 amended: the same with the count min(2^32, sectors of the image) - 1.
C25_CoveringCountCappedAt32Bits ==
    (last.op = "pmbr" /\ last.output[1] # Wide(0, 0)) =>
        /\ last.res = "ok"
        /\ last.flag =>
              CoveringCount(image.pmbr,
                            WideDec(WideMin(Wide(65536, 0), last.output[1])))
        /\ ~last.flag => OtherFieldsKept(image.pmbr, last.output[2])
        /\ SuppliedFields(image.pmbr, last.output[2], last.output[3],
                          last.output[4], last.flag)

\* a protective MBR was created on an image of more than 2^32 sectors: the
\* count is 2^32 - 1
C25_Witness ==
    /\ last.op = "pmbr"
    /\ last.flag
    /\ last.res = "ok"
    /\ last.output[1] = Wide(65536, 1)
    /\ SubSeq(image.pmbr.LegacyPart0, 13, 16) = <<255, 255, 255, 255>>

\* C26: CheckIntegrity ends without failure or with the integrity error
\* (GPTError), also for an allocated partition that starts before
\* FirstUsableLBA or ends after LastUsableLBA.
C26_ViolationsAreGPTError ==
    last.op = "CheckIntegrity" => last.res \in {"ok", "GPTError"}

\* every allocated partition of g lies in the usable region and has at least
\* one block
AllocatedWithinUsable(g) ==
    \A i \in Allocated(g) :
        /\ g.header.FirstUsableLBA <= g.partitions[i].FirstLBA
        /\ g.partitions[i].FirstLBA <= g.partitions[i].LastLBA
        /\ g.partitions[i].LastLBA <= g.header.LastUsableLBA

\* C27: a table that passed CheckIntegrity and was persisted by a command
\* has every allocated partition p with FirstUsableLBA <= p.FirstLBA <=
\* p.LastLBA <= LastUsableLBA: no partition of zero or negative block count
\* and none reaching outside the usable region.
C27_PersistedWithinUsable ==
    (/\ last.op \in MutatingCommands
     /\ last.res = "ok"
     /\ LoadFromFile(image).res = "ok") =>
        AllocatedWithinUsable(LoadFromFile(image).gpt)

\* the image has the size it had when the table g was written: the later
\* of its two headers is in the last block
SizeAsWritten(g, img) ==
    img.size = g.block_size * (Max2(g.header.CurrentLBA, g.header.BackupLBA) + 1)

\* repair of the table g left the geometry as it was, in the table g2 read
\* back
RepairKeptGeometry(g, g2, res) ==
    /\ res = "ok"
    /\ g2.header.BackupLBA = g.header.BackupLBA
    /\ g2.header.LastUsableLBA = g.header.LastUsableLBA
    /\ g2.header.CurrentLBA # g2.header.BackupLBA

\* C28: repair of an image whose size has not changed since its table was
\* written leaves BackupLBA and LastUsableLBA as they were and CurrentLBA
\* different from BackupLBA, for a table loaded from the primary header and
\* for one loaded from the backup header.
C28_RepairKeepsGeometry ==
    [][(/\ last'.op = "repair"
        /\ LoadFromFile(image).res = "ok"
        /\ SizeAsWritten(LoadFromFile(image).gpt, image)) =>
          /\ LoadFromFile(image').res = "ok"
          /\ RepairKeptGeometry(LoadFromFile(image).gpt,
                                LoadFromFile(image').gpt, last'.res)]_vars

\* the blocks of the primary metadata of the header h: the header and its
\* partition table, which has `blocks` blocks
PrimaryMetadata(h, blocks) == 1..(h.PartitionEntriesStartingLBA + blocks - 1)

\* the blocks WriteToFile writes the backup table and backup header into
BackupMetadata(h, blocks) == (h.BackupLBA - blocks)..h.BackupLBA

\* the usable region of the table g holds no block of either copy of the
\* metadata
UsableExcludesMetadata(g) ==
    \A lba \in g.header.FirstUsableLBA..g.header.LastUsableLBA :
        /\ lba \notin PrimaryMetadata(g.header, GetPartitionTableBlocks(g, g.header))
        /\ lba \notin BackupMetadata(g.header, GetPartitionTableBlocks(g, g.header))

\* the blocks the events of a WriteToFile say the backup copy was written to
BackupBlocksWritten(g, trace) ==
    UNION {IF trace[k].ev = "WriteData Backup Partitions"
           THEN trace[k].a..(trace[k].a + GetPartitionTableBlocks(g, g.header) - 1)
           ELSE IF trace[k].ev = "WriteData Backup Header"
           THEN {trace[k].a}
           ELSE {} : k \in 1..Len(trace)}

\* the table g is for an image larger than every image a table was created
\* for: a Resize to a larger size has succeeded
Grown(g) == \A size \in ApiImageSizes : GetSize(g) > size

\* a partition of g ends at LastUsableLBA, as ExpandPartition leaves the last
\* partition
ExpandedToLastUsable(g) ==
    \E i \in Allocated(g) : g.partitions[i].LastLBA = g.header.LastUsableLBA

\* C29: in every header made by Create and changed by successful Resize
\* calls the usable region holds neither the primary metadata (LBA 1 through
\* PartitionEntriesStartingLBA + table blocks - 1) nor the backup metadata
\* (BackupLBA - table blocks through BackupLBA), and after Resize to a larger
\* size and ExpandPartition of the last partition a successful WriteToFile
\* writes the backup copy to no block of an allocated partition.
C29_UsableExcludesMetadata ==
    /\ UsableExcludesMetadata(gpt)
    /\ (/\ last.op = "WriteToFile"
        /\ last.res = "ok"
        /\ Grown(gpt)
        /\ ExpandedToLastUsable(gpt)) =>
          \A i \in Allocated(gpt) :
              LBASet(gpt.partitions[i]) \cap BackupBlocksWritten(gpt, last.trace) = {}

\* the pad_blocks the header h was created with
PadBlocksOf(h) == h.PartitionEntriesStartingLBA - DEFAULT_PARTITIONS_LBA

\* the header Create makes for an image of `size` bytes with the block size
\* and the padding of the table g
CreatedFor(g, size) ==
    HeaderCreate(size, g.block_size, PadBlocksOf(g.header),
                 g.header.PartitionEntriesNumber, g.header.DiskGUID)

\* C30: a successful Resize to a size other than the current one yields the
\* BackupLBA and the LastUsableLBA that Create computes for the new size
\* with the same block size and padding.
C30_ResizeAgreesWithCreate ==
    [][(/\ last'.op = "Resize"
        /\ last'.res = "ok"
        /\ last'.number # last'.old_size) =>
          /\ gpt'.header.BackupLBA = CreatedFor(gpt, last'.number).BackupLBA
          /\ gpt'.header.LastUsableLBA = CreatedFor(gpt, last'.number).LastUsableLBA]_vars
====
